---- MODULE Spec2Model ----
(***************************************************************************)
(* The two-stage compiler of pystreamv and the demo runtime.               *)
(*   stage 1  Formula tree -> IR          (pystreamv.py, CircuitCompiler)  *)
(*   stage 2  IR -> backend nodes (pystreamv_ls_compile.py, compile_to_ls) *)
(*   runtime  run_random_intruder_sponge: one pipeline per intruder id     *)
(*   registry FormulaCompiler of biolanguage.py: name -> stored AST        *)
(* Every Python value is a record tagged with its class in field t, so two *)
(* values of different classes are never equal.  A raised exception is the *)
(* record Raise(exc); it propagates as the first one met in evaluation     *)
(* order.  Python floats are fixed-point numbers counted in thousandths    *)
(* (field milli); every float the model builds is exact in that scale.     *)
(***************************************************************************)
EXTENDS Integers, Sequences, FiniteSets, TLC

VARIABLES
    formula,     \* the Formula built so far by the DSL combinators (None before)
    ast,         \* the FormulaAST handed to CircuitCompiler.visit (None before)
    ir,          \* the term returned by stage 1, or the exception it raised
    source_map,  \* the source_map argument of the compile_to_ls call
    backend,     \* the node returned by compile_to_ls, or the exception raised
    pc,          \* "build" -> "compiled" -> "done"
    hooks,       \* the resolve_source, make_const, make_call arguments of that call
    calls,       \* the hook calls compile_to_ls made, in the order it made them
    heap,        \* the state dicts of the CompareLastTwoTerm objects, by address
    spawned,     \* DynamicSpawnTerm: the pipeline spawned for each id (None before)
    inbox,       \* the items routed to each id's pipeline and not yet processed
    printed,     \* the items each id's pipeline has handed to ls.Print
    emitted,     \* i of RandomIntruderSource.run: the items emitted so far
    _formula_trees,         \* FormulaCompiler._formula_trees: name -> stored AST
    _current_formula_name,  \* FormulaCompiler._current_formula_name
    compile_log, \* the FormulaCompiler.compile and clear_formulas calls made, in order
    returned,    \* what the last call on the registry returned or raised
    ncalls,      \* the calls made on the registry so far
    tpc,         \* where each thread is inside its FormulaCompiler.compile call
    tlocal       \* the locals formula, name and compiled_ast of each thread's call

vars == <<formula, ast, ir, source_map, backend, pc, hooks, calls,
          heap, spawned, inbox, printed, emitted,
          _formula_trees, _current_formula_name, compile_log, returned, ncalls,
          tpc, tlocal>>

\* the variables of the formula registry and of the threads that call it
registry_vars == <<_formula_trees, _current_formula_name, compile_log, returned, ncalls>>

thread_vars == <<tpc, tlocal>>

\* the variables of the running sponge
sponge_vars == <<heap, spawned, inbox, printed, emitted>>

\* the variables of the compilation
compile_vars == <<formula, ast, ir, source_map, backend, pc, hooks, calls>>

----------------------------------------------------------------------------
(* Host values *)

None == [t |-> "NoneType"]

PyInt(n) == [t |-> "int", i |-> n]

PyFloat(n) == [t |-> "float", milli |-> n]

PyStr(x) == [t |-> "str", s |-> x]

PyBool(x) == [t |-> "bool", b |-> x]

PyTuple(items) == [t |-> "tuple", items |-> items]

Raise(exc) == [t |-> "raise", exc |-> exc]

Raised(x) == x.t = "raise"

\* float(value) of an int or a float
ToFloat(value) == IF value.t = "int" THEN PyFloat(value.i * 1000) ELSE value

\* a * b of two floats
FloatMul(a, b) == PyFloat((a.milli * b.milli) \div 1000)

\* a function object; its repr names it (the address part is fixed for its life)
Function(name) == [t |-> "function", name |-> name]

\* repr(value) of a host value that reaches ExternalFunctionTerm
Repr(value) ==
    CASE value.t = "NoneType" -> PyStr("None")
      [] value.t = "function" -> PyStr(value.name)
      [] OTHER -> PyStr("<object>")

----------------------------------------------------------------------------
(* Units / Period *)

Unit(name, to_seconds) == [t |-> "Unit", name |-> name, to_seconds |-> to_seconds]

Period(value, unit) == [t |-> "Period", value |-> ToFloat(value), unit |-> unit]

Unit__rmul__(self, value) == Period(ToFloat(value), self)

Period_to_seconds(self) == FloatMul(self.value, self.unit.to_seconds)

s == Unit("s", PyFloat(1000))

ms == Unit("ms", PyFloat(1))

m == Unit("m", PyFloat(60000))

h == Unit("h", PyFloat(3600000))

----------------------------------------------------------------------------
(* Formula tree *)

Formula(op, args) == [t |-> "Formula", op |-> op, args |-> args]

BinaryOp(op, left, right) ==
    [t |-> "BinaryOp", op |-> op, args |-> <<left, right>>,
     left |-> left, right |-> right]

IndexOp(target, index) ==
    [t |-> "IndexOp", op |-> "index", args |-> <<target, index>>,
     target |-> target, index |-> index]

TemporalOp(op, target, args) ==
    [t |-> "TemporalOp", op |-> op, args |-> args, target |-> target]

FieldAccess(stream, field) ==
    [t |-> "FieldAccess", op |-> "field_access", args |-> <<stream, PyStr(field)>>,
     stream |-> stream, field |-> field]

MultiplexFormula(output, id_from, eos_from) ==
    [t |-> "MultiplexFormula", op |-> "multiplex",
     args |-> <<output, id_from, eos_from>>,
     output |-> output, id_from |-> id_from, eos_from |-> eos_from]

AlwaysOperator(duration, condition) ==
    [t |-> "AlwaysOperator", op |-> "always", args |-> <<duration, condition>>,
     duration |-> duration, condition |-> condition]

FormulaClasses ==
    {"Formula", "BinaryOp", "IndexOp", "TemporalOp", "FieldAccess",
     "MultiplexFormula", "AlwaysOperator"}

\* isinstance(x, Formula)
IsFormula(x) == x.t \in FormulaClasses

Formula__lt__(self, other) == BinaryOp("<", self, other)

Formula__gt__(self, other) == BinaryOp(">", self, other)

Formula__sub__(self, other) == BinaryOp("-", self, other)

Formula__getitem__(self, index) == IndexOp(self, index)

Formula_every(self, period) == TemporalOp("every", self, <<period>>)

Formula_last(self) == TemporalOp("last", self, <<>>)

\* a class object: its identity, its __name__ and the names it annotates
Type(id, name, annotations) ==
    [t |-> "type", id |-> id, name |-> name, annotations |-> annotations]

InputStream(type) == [t |-> "InputStream", type |-> type, _fields |-> type.annotations]

\* self.time of the source is the FieldAccess that InputStream__getattr__ gives
TimestampedStream(original_stream) ==
    [t |-> "TimestampedStream", type |-> original_stream.type,
     _fields |-> original_stream._fields \cup {"time"},
     _original |-> original_stream]

InputStream__getattr__(self, name) ==
    IF name \in self._fields THEN FieldAccess(self, name) ELSE Raise("AttributeError")

GlobalTime == [t |-> "GlobalTime", time |-> Formula("global_time", <<>>)]

GLOBAL == GlobalTime

timestamp(stream) == TimestampedStream(stream)

H(duration, condition) == AlwaysOperator(duration, condition)

multiplex_id(output, id_from, eos_from) == MultiplexFormula(output, id_from, eos_from)

FormulaAST(f, children) == [t |-> "FormulaAST", formula |-> f, children |-> children]

Formula_to_ast(self) == FormulaAST(self, <<>>)

----------------------------------------------------------------------------
(* IR terms *)

FunctionTerm(function_name, args) ==
    [t |-> "FunctionTerm", function_name |-> function_name, args |-> args]

SourceTerm(stream_type, field) ==
    [t |-> "SourceTerm", function_name |-> "source", args |-> <<>>,
     stream_type |-> stream_type, field |-> field]

ConstantTerm(value) ==
    [t |-> "ConstantTerm", function_name |-> "const", args |-> <<>>, value |-> value]

ExternalFunctionTerm(function) ==
    [t |-> "ExternalFunctionTerm", function_name |-> "external", args |-> <<>>,
     function |-> function]

PeriodTerm(period) ==
    [t |-> "PeriodTerm", function_name |-> "period", args |-> <<>>, period |-> period]

UnitTerm(unit) ==
    [t |-> "UnitTerm", function_name |-> "unit", args |-> <<>>, unit |-> unit]

\* The outcome of building a node from already evaluated arguments: the first
\* exception raised while evaluating them, left to right, or the node.
AnyRaised(args) == \E i \in 1..Len(args) : Raised(args[i])

FirstRaised(args) ==
    args[CHOOSE i \in 1..Len(args) :
            Raised(args[i]) /\ \A j \in 1..(i - 1) : ~Raised(args[j])]

Built(args, node) == IF AnyRaised(args) THEN FirstRaised(args) ELSE node

\* hasattr(obj, a) for every a in attrs
HasAttrs(obj, attrs) == attrs \subseteq DOMAIN obj

----------------------------------------------------------------------------
(* Stage 1: CircuitCompiler *)

RECURSIVE visit(_), _compile_operand(_)

\* {'>': 'gt', '<': 'lt', '-': 'sub'}.get(op, op)
op_key(op) ==
    CASE op = ">" -> "gt" [] op = "<" -> "lt" [] op = "-" -> "sub" [] OTHER -> op

generic_visit(node) ==
    LET args == [i \in 1..Len(node.children) |-> visit(node.children[i])]
    IN  Built(args, FunctionTerm(node.formula.op, args))

\* visit_field_access keying the source by the stream object, not by its type
visit_field_access_by_stream(node) ==
    LET field_access == node.formula IN
    IF ~HasAttrs(field_access, {"stream", "field"}) THEN Raise("AttributeError")
    ELSE SourceTerm(field_access.stream, field_access.field)

visit_field_access(node) ==
    LET field_access == node.formula IN
    IF ~HasAttrs(field_access, {"stream", "field"}) THEN Raise("AttributeError")
    ELSE SourceTerm(field_access.stream.type, field_access.field)

visit_binary_op(node) ==
    LET binary_op == node.formula IN
    IF ~HasAttrs(binary_op, {"left", "right"}) THEN Raise("AttributeError")
    ELSE LET args == <<_compile_operand(binary_op.left),
                       _compile_operand(binary_op.right)>>
         IN  Built(args, FunctionTerm("op_binary_op", args))

visit_lt(node) ==
    LET binary_op == node.formula IN
    IF ~HasAttrs(binary_op, {"left", "right"}) THEN Raise("AttributeError")
    ELSE LET args == <<_compile_operand(binary_op.left),
                       _compile_operand(binary_op.right)>>
         IN  Built(args, FunctionTerm("lt", args))

\* visit_gt with the two operands compiled into the wrong positions
visit_gt_swapped(node) ==
    LET binary_op == node.formula IN
    IF ~HasAttrs(binary_op, {"left", "right"}) THEN Raise("AttributeError")
    ELSE LET args == <<_compile_operand(binary_op.right),
                       _compile_operand(binary_op.left)>>
         IN  Built(args, FunctionTerm("gt", args))

visit_gt(node) ==
    LET binary_op == node.formula IN
    IF ~HasAttrs(binary_op, {"left", "right"}) THEN Raise("AttributeError")
    ELSE LET args == <<_compile_operand(binary_op.left),
                       _compile_operand(binary_op.right)>>
         IN  Built(args, FunctionTerm("gt", args))

\* visit_sub with the right operand compiled first and placed first
visit_sub_swapped(node) ==
    LET binary_op == node.formula IN
    IF ~HasAttrs(binary_op, {"left", "right"}) THEN Raise("AttributeError")
    ELSE LET args == <<_compile_operand(binary_op.right),
                       _compile_operand(binary_op.left)>>
         IN  Built(args, FunctionTerm("sub", args))

visit_sub(node) ==
    LET binary_op == node.formula IN
    IF ~HasAttrs(binary_op, {"left", "right"}) THEN Raise("AttributeError")
    ELSE LET args == <<_compile_operand(binary_op.left),
                       _compile_operand(binary_op.right)>>
         IN  Built(args, FunctionTerm("sub", args))

\* visit_index turning the offset into a count from the end (-1 becomes 1)
visit_index_abs(node) ==
    LET index_op == node.formula IN
    IF ~HasAttrs(index_op, {"target", "index"}) THEN Raise("AttributeError")
    ELSE LET k == index_op.index
             args == <<_compile_operand(index_op.target),
                       _compile_operand(IF k.t = "int" /\ k.i < 0 THEN PyInt(-k.i) ELSE k)>>
         IN  Built(args, FunctionTerm("index", args))

visit_index(node) ==
    LET index_op == node.formula IN
    IF ~HasAttrs(index_op, {"target", "index"}) THEN Raise("AttributeError")
    ELSE LET args == <<_compile_operand(index_op.target),
                       _compile_operand(index_op.index)>>
         IN  Built(args, FunctionTerm("index", args))

\* temporal_op.args[0] is read after the target has been compiled
visit_every(node) ==
    LET temporal_op == node.formula IN
    IF ~HasAttrs(temporal_op, {"target"}) THEN Raise("AttributeError")
    ELSE LET target_term == _compile_operand(temporal_op.target)
             period_term == IF Len(temporal_op.args) = 0 THEN Raise("IndexError")
                            ELSE _compile_operand(temporal_op.args[1])
             args == <<target_term, period_term>>
         IN  Built(args, FunctionTerm("every", args))

\* visit_last leaving the target out of the node it builds
visit_last_bare(node) ==
    LET temporal_op == node.formula IN
    IF ~HasAttrs(temporal_op, {"target"}) THEN Raise("AttributeError")
    ELSE Built(<<_compile_operand(temporal_op.target)>>, FunctionTerm("last", <<>>))

visit_last(node) ==
    LET temporal_op == node.formula IN
    IF ~HasAttrs(temporal_op, {"target"}) THEN Raise("AttributeError")
    ELSE LET args == <<_compile_operand(temporal_op.target)>>
         IN  Built(args, FunctionTerm("last", args))

\* visit_always with the condition before the duration
visit_always_condition_first(node) ==
    LET always_op == node.formula IN
    IF ~HasAttrs(always_op, {"duration", "condition"}) THEN Raise("AttributeError")
    ELSE LET args == <<_compile_operand(always_op.condition),
                       _compile_operand(always_op.duration)>>
         IN  Built(args, FunctionTerm("always", args))

visit_always(node) ==
    LET always_op == node.formula IN
    IF ~HasAttrs(always_op, {"duration", "condition"}) THEN Raise("AttributeError")
    ELSE LET args == <<_compile_operand(always_op.duration),
                       _compile_operand(always_op.condition)>>
         IN  Built(args, FunctionTerm("always", args))

\* visit_multiplex with the id source and the eos source in each other's place
visit_multiplex_swapped(node) ==
    LET multiplex_op == node.formula IN
    IF ~HasAttrs(multiplex_op, {"output", "id_from", "eos_from"})
    THEN Raise("AttributeError")
    ELSE LET args == <<_compile_operand(multiplex_op.output),
                       _compile_operand(multiplex_op.eos_from),
                       _compile_operand(multiplex_op.id_from)>>
         IN  Built(args, FunctionTerm("multiplex", args))

visit_multiplex(node) ==
    LET multiplex_op == node.formula IN
    IF ~HasAttrs(multiplex_op, {"output", "id_from", "eos_from"})
    THEN Raise("AttributeError")
    ELSE LET args == <<_compile_operand(multiplex_op.output),
                       _compile_operand(multiplex_op.id_from),
                       _compile_operand(multiplex_op.eos_from)>>
         IN  Built(args, FunctionTerm("multiplex", args))

\* visit_global_time emitting a name of its own
visit_global_time_now(node) == FunctionTerm("now", <<>>)

visit_global_time(node) == FunctionTerm("global_time", <<>>)

visit_second(node) == FunctionTerm("time_unit_second", <<>>)

\* getattr(self, f'visit_{op_key}', self.generic_visit)(node)
visit(node) ==
    LET key == op_key(node.formula.op) IN
    CASE key = "field_access" -> visit_field_access(node)
      [] key = "binary_op" -> visit_binary_op(node)
      [] key = "lt" -> visit_lt(node)
      [] key = "gt" -> visit_gt(node)
      [] key = "sub" -> visit_sub(node)
      [] key = "index" -> visit_index(node)
      [] key = "every" -> visit_every(node)
      [] key = "last" -> visit_last(node)
      [] key = "always" -> visit_always(node)
      [] key = "multiplex" -> visit_multiplex(node)
      [] key = "global_time" -> visit_global_time(node)
      [] key = "second" -> visit_second(node)
      [] OTHER -> generic_visit(node)

_formula_to_ast(f) == FormulaAST(f, <<>>)

\* _compile_operand folding a Unit into a constant of its scale
_compile_operand_unit_const(operand) ==
    CASE IsFormula(operand) -> visit(_formula_to_ast(operand))
      [] operand.t = "Period" -> PeriodTerm(operand)
      [] operand.t = "Unit" -> ConstantTerm(operand.to_seconds)
      [] operand.t \in {"int", "float", "str", "bool"} -> ConstantTerm(operand)
      [] OTHER -> ExternalFunctionTerm(operand)

\* bool is a subclass of int, so True and False take the ConstantTerm branch
_compile_operand(operand) ==
    CASE IsFormula(operand) -> visit(_formula_to_ast(operand))
      [] operand.t = "Period" -> PeriodTerm(operand)
      [] operand.t = "Unit" -> UnitTerm(operand)
      [] operand.t \in {"int", "float", "str", "bool"} -> ConstantTerm(operand)
      [] OTHER -> ExternalFunctionTerm(operand)

FormulaAST_compile_to_circuit(self) == visit(self)

Formula_compile(self) == FormulaAST_compile_to_circuit(Formula_to_ast(self))

----------------------------------------------------------------------------
(* Stage 2: PystreamvToLSCompiler *)

\* a dict: items is the function from its keys to its values
Dict(items) == [t |-> "dict", items |-> items]

\* ls.FunctionTerm(name=name) with node.args = list(args)
default_make_call(name, args) == [t |-> "ls.FunctionTerm", name |-> name, args |-> args]

\* ls.FunctionTerm(name='const') with node.value = value and node.args = [value]
default_make_const(value) ==
    [t |-> "ls.FunctionTerm", name |-> "const", value |-> value, args |-> <<value>>]

SourceResolver(mapping) == [t |-> "SourceResolver", _mapping |-> mapping.items]

\* getattr(st, "__name__", str(st))
TypeName(st) == IF st.t = "type" THEN PyStr(st.name) ELSE st

\* the lookup by class name tried before the lookup by class object
SourceResolver__call__name_first(self, src) ==
    LET st == IF "stream_type" \in DOMAIN src THEN src.stream_type ELSE None
        field == IF "field" \in DOMAIN src THEN PyStr(src.field) ELSE None
    IN  IF st = None \/ field = None THEN Raise("ValueError")
        ELSE LET key_obj == <<st, field>>
                 key_name == <<TypeName(st), field>>
             IN  IF key_name \in DOMAIN self._mapping THEN self._mapping[key_name]
                 ELSE IF key_obj \in DOMAIN self._mapping THEN self._mapping[key_obj]
                 ELSE Raise("KeyError")

\* a placeholder source returned when neither key is in the mapping
SourceResolver__call__defaulting(self, src) ==
    LET st == IF "stream_type" \in DOMAIN src THEN src.stream_type ELSE None
        field == IF "field" \in DOMAIN src THEN PyStr(src.field) ELSE None
    IN  IF st = None \/ field = None THEN Raise("ValueError")
        ELSE LET key_obj == <<st, field>>
                 key_name == <<TypeName(st), field>>
             IN  IF key_obj \in DOMAIN self._mapping THEN self._mapping[key_obj]
                 ELSE IF key_name \in DOMAIN self._mapping THEN self._mapping[key_name]
                 ELSE default_make_call("source", <<>>)

SourceResolver__call__(self, src) ==
    LET st == IF "stream_type" \in DOMAIN src THEN src.stream_type ELSE None
        field == IF "field" \in DOMAIN src THEN PyStr(src.field) ELSE None
    IN  IF st = None \/ field = None THEN Raise("ValueError")
        ELSE LET key_obj == <<st, field>>
                 key_name == <<TypeName(st), field>>
             IN  IF key_obj \in DOMAIN self._mapping THEN self._mapping[key_obj]
                 ELSE IF key_name \in DOMAIN self._mapping THEN self._mapping[key_name]
                 ELSE Raise("KeyError")

\* the closures the factories default_make_const() and default_make_call() return
DefaultMakeConst == Function("default_make_const._make")

DefaultMakeCall == Function("default_make_call._make")

\* a caller's make_const that refuses a float value, and a caller's make_call
\* that refuses the opcode sub; both build the default node otherwise
StrictMakeConst == Function("strict_make_const")

StrictMakeCall == Function("strict_make_call")

\* hook(value) of a make_const hook
ApplyMakeConst(hook, value) ==
    IF hook = StrictMakeConst /\ value.t = "float" THEN Raise("TypeError")
    ELSE default_make_const(value)

\* hook(name, args) of a make_call hook
ApplyMakeCall(hook, name, args) ==
    IF hook = StrictMakeCall /\ name = "sub" THEN Raise("NotImplementedError")
    ELSE default_make_call(name, args)

\* make_const or default_make_const(), make_call or default_make_call()
PystreamvToLSCompiler(resolve_source, mk_const, mk_call) ==
    [t |-> "PystreamvToLSCompiler", resolve_source |-> resolve_source,
     make_const |-> IF mk_const = None THEN DefaultMakeConst ELSE mk_const,
     make_call |-> IF mk_call = None THEN DefaultMakeCall ELSE mk_call]

\* self.make_call(name, args) returning None when the hook raises
make_call_swallowing(self, name, args) ==
    IF AnyRaised(args) THEN FirstRaised(args)
    ELSE IF Raised(ApplyMakeCall(self.make_call, name, args)) THEN None
    ELSE ApplyMakeCall(self.make_call, name, args)

\* self.make_call(name, args): args is a list display, evaluated before the call
make_call(self, name, args) == Built(args, ApplyMakeCall(self.make_call, name, args))

\* self.make_const(value)
make_const(self, value) == ApplyMakeConst(self.make_const, value)

RECURSIVE _compile_node(_, _)

\* c(args[i]), with Python's index i - 1
c(self, args, i) ==
    IF i <= Len(args) THEN _compile_node(self, args[i]) ELSE Raise("IndexError")

\* the branch of the ten names that _compile_node treats one by one
_compile_known(self, fn, args) ==
    CASE fn = "every" -> make_call(self, "every", <<c(self, args, 1), c(self, args, 2)>>)
      [] fn = "always" -> make_call(self, "always", <<c(self, args, 1), c(self, args, 2)>>)
      [] fn = "last" -> make_call(self, "last", <<c(self, args, 1)>>)
      [] fn = "index" -> make_call(self, "index", <<c(self, args, 1), c(self, args, 2)>>)
      [] fn \in {"lt", "gt", "sub"} ->
            make_call(self, fn, <<c(self, args, 1), c(self, args, 2)>>)
      [] fn = "multiplex" ->
            make_call(self, "multiplex",
                      <<c(self, args, 1), c(self, args, 2), c(self, args, 3)>>)
      [] fn = "global_time" -> make_call(self, "global_time", <<>>)
      [] fn = "time_unit_second" -> make_const(self, PyFloat(1000))

\* fn or "unknown"
fallback_name(fn) == IF fn = "" THEN "unknown" ELSE fn

\* the fallback naming every unrecognized node "external"
_compile_fallback_external(self, fn, args) ==
    make_call(self, "external",
              [i \in 1..Len(args) |-> _compile_node(self, args[i])])

\* the fallback refusing every name it has no rule for
_compile_fallback_raising(self, fn, args) == Raise("NotImplementedError")

\* make_call(fn or "unknown", [self._compile_node(a) for a in args])
_compile_fallback(self, fn, args) ==
    make_call(self, fallback_name(fn),
              [i \in 1..Len(args) |-> _compile_node(self, args[i])])

\* the PeriodTerm branch passing the magnitude on without the unit's scale
_compile_leaf_unscaled(self, node) ==
    CASE node.t = "SourceTerm" -> SourceResolver__call__(self.resolve_source, node)
      [] node.t = "ConstantTerm" -> make_const(self, node.value)
      [] node.t = "PeriodTerm" -> make_const(self, ToFloat(node.period.value))
      [] node.t = "UnitTerm" -> make_const(self, ToFloat(node.unit.to_seconds))
      [] node.t = "ExternalFunctionTerm" ->
            make_call(self, "external", <<make_const(self, Repr(node.function))>>)

\* the PeriodTerm branch dividing the magnitude by the unit's scale
_compile_leaf_divided(self, node) ==
    CASE node.t = "SourceTerm" -> SourceResolver__call__(self.resolve_source, node)
      [] node.t = "ConstantTerm" -> make_const(self, node.value)
      [] node.t = "PeriodTerm" ->
            make_const(self, PyFloat((ToFloat(node.period.value).milli * 1000)
                                     \div ToFloat(node.period.unit.to_seconds).milli))
      [] node.t = "UnitTerm" -> make_const(self, ToFloat(node.unit.to_seconds))
      [] node.t = "ExternalFunctionTerm" ->
            make_call(self, "external", <<make_const(self, Repr(node.function))>>)

_compile_leaf(self, node) ==
    CASE node.t = "SourceTerm" -> SourceResolver__call__(self.resolve_source, node)
      [] node.t = "ConstantTerm" -> make_const(self, node.value)
      [] node.t = "PeriodTerm" ->
            make_const(self, FloatMul(ToFloat(node.period.value),
                                      ToFloat(node.period.unit.to_seconds)))
      [] node.t = "UnitTerm" -> make_const(self, ToFloat(node.unit.to_seconds))
      [] node.t = "ExternalFunctionTerm" ->
            make_call(self, "external", <<make_const(self, Repr(node.function))>>)

LeafClasses ==
    {"SourceTerm", "ConstantTerm", "PeriodTerm", "UnitTerm", "ExternalFunctionTerm"}

KnownNames ==
    {"lt", "gt", "sub", "index", "last", "every", "always", "multiplex",
     "global_time", "time_unit_second"}

_compile_node(self, node) ==
    IF node.t \in LeafClasses THEN _compile_leaf(self, node)
    ELSE LET fn == IF "function_name" \in DOMAIN node THEN node.function_name ELSE ""
             args == IF "args" \in DOMAIN node THEN node.args ELSE <<>>
         IN  IF fn \in KnownNames THEN _compile_known(self, fn, args)
             ELSE _compile_fallback(self, fn, args)

PystreamvToLSCompiler_compile(self, node) == _compile_node(self, node)

\* compile_to_ls looking at source_map first and at resolve_source only without one
compile_to_ls_compiler_map_first(sm, resolve_source, mk_const, mk_call) ==
    IF sm # None THEN PystreamvToLSCompiler(SourceResolver(sm), mk_const, mk_call)
    ELSE IF resolve_source = None THEN Raise("ValueError")
    ELSE PystreamvToLSCompiler(resolve_source, mk_const, mk_call)

\* the compiler compile_to_ls builds, or the ValueError it raises before that
compile_to_ls_compiler(sm, resolve_source, mk_const, mk_call) ==
    IF resolve_source = None
    THEN IF sm = None THEN Raise("ValueError")
         ELSE PystreamvToLSCompiler(SourceResolver(sm), mk_const, mk_call)
    ELSE PystreamvToLSCompiler(resolve_source, mk_const, mk_call)

compile_to_ls(root, sm, resolve_source, mk_const, mk_call) ==
    LET compiler == compile_to_ls_compiler(sm, resolve_source, mk_const, mk_call)
    IN  IF Raised(compiler) THEN compiler
        ELSE PystreamvToLSCompiler_compile(compiler, root)

----------------------------------------------------------------------------
(* The hook calls of a translation, in the order _compile_node makes them.   *)
(* An IR node is named by its path from the root: the child indices met.     *)

\* one call: the hook, the path of the IR node it is made for, what it gave
HookCall(hook, path, result) == [hook |-> hook, path |-> path, result |-> result]

\* the number of children the rule of a name reads: c(args[0]), c(args[1]), ...
Arity(fn) ==
    CASE fn \in {"every", "always", "index", "lt", "gt", "sub"} -> 2
      [] fn = "last" -> 1
      [] fn = "multiplex" -> 3
      [] fn \in {"global_time", "time_unit_second"} -> 0

RECURSIVE hook_calls(_, _, _), hook_calls_of(_, _, _, _), hook_calls_of_reversed(_, _, _, _)

\* the children evaluated right to left
hook_calls_of_reversed(self, path, kids, i) ==
    IF i > Len(kids) THEN <<>>
    ELSE LET k == Len(kids) + 1 - i IN
         hook_calls(self, path \o <<k>>, kids[k])
         \o (IF Raised(_compile_node(self, kids[k])) THEN <<>>
             ELSE hook_calls_of_reversed(self, path, kids, i + 1))

\* the calls of compiling kids[i], kids[i + 1], ... one after the other, up to
\* the first child that raises
hook_calls_of(self, path, kids, i) ==
    IF i > Len(kids) THEN <<>>
    ELSE hook_calls(self, path \o <<i>>, kids[i])
         \o (IF Raised(_compile_node(self, kids[i])) THEN <<>>
             ELSE hook_calls_of(self, path, kids, i + 1))

\* the calls of a leaf: an ExternalFunctionTerm makes its constant, then its call
hook_calls_leaf(self, path, node) ==
    CASE node.t = "SourceTerm" ->
            <<HookCall("resolve_source", path, _compile_leaf(self, node))>>
      [] node.t \in {"ConstantTerm", "PeriodTerm", "UnitTerm"} ->
            <<HookCall("make_const", path, _compile_leaf(self, node))>>
      [] node.t = "ExternalFunctionTerm" ->
            LET payload == make_const(self, Repr(node.function)) IN
            <<HookCall("make_const", path, payload)>>
            \o (IF Raised(payload) THEN <<>>
                ELSE <<HookCall("make_call", path,
                                ApplyMakeCall(self.make_call, "external", <<payload>>))>>)

hook_calls(self, path, node) ==
    IF node.t \in LeafClasses THEN hook_calls_leaf(self, path, node)
    ELSE LET fn == IF "function_name" \in DOMAIN node THEN node.function_name ELSE ""
             args == IF "args" \in DOMAIN node THEN node.args ELSE <<>>
             n == IF fn \in KnownNames THEN Arity(fn) ELSE Len(args)
             kids == SubSeq(args, 1, IF n < Len(args) THEN n ELSE Len(args))
             made == [i \in 1..Len(kids) |-> _compile_node(self, kids[i])]
             name == IF fn \in KnownNames THEN fn ELSE fallback_name(fn)
         IN  IF fn = "time_unit_second"
             THEN <<HookCall("make_const", path, make_const(self, PyFloat(1000)))>>
             ELSE hook_calls_of(self, path, kids, 1)
                  \o (IF Len(args) >= n /\ ~AnyRaised(made)
                      THEN <<HookCall("make_call", path,
                                      ApplyMakeCall(self.make_call, name, made))>>
                      ELSE <<>>)

\* the calls of compile_to_ls: none when it raises before it has a compiler
compile_to_ls_calls(root, sm, resolve_source, mk_const, mk_call) ==
    LET compiler == compile_to_ls_compiler(sm, resolve_source, mk_const, mk_call)
    IN  IF Raised(compiler) THEN <<>> ELSE hook_calls(compiler, <<>>, root)

----------------------------------------------------------------------------
(* The demo runtime: RandomIntruderSource * DynamicSpawnTerm(filter_key="id"), *)
(* one pipeline dist * cmp * stale * Print per id.  The state dict of a        *)
(* CompareLastTwoTerm is an object of its own: the term holds its address and  *)
(* heap holds the dict.                                                        *)

DataItem(payload) == [t |-> "DataItem", payload |-> payload]

\* math.hypot(lat, lon), for whole lat and lon whose hypotenuse is whole
Hypot(lat, lon) ==
    LET x == lat.milli \div 1000
        y == lon.milli \div 1000
    IN  PyFloat(1000 * CHOOSE d \in 0..(x + y) : d * d = x * x + y * y)

ComputeDistanceTerm(name) == [t |-> "ComputeDistanceTerm", name |-> name]

\* float() of the floats the source emits raises nothing
ComputeDistanceTerm_f(self, item) ==
    DataItem([id |-> item.payload.id,
              dist |-> Hypot(ToFloat(item.payload.lat), ToFloat(item.payload.lon))])

\* a CompareLastTwoTerm whose state is one dict shared by every instance
CompareLastTwoTerm_shared(name, state) ==
    [t |-> "CompareLastTwoTerm", name |-> name, state |-> 1]

\* state is the address of the dict {"prev": None} that __init__ creates
CompareLastTwoTerm(name, state) ==
    [t |-> "CompareLastTwoTerm", name |-> name, state |-> state]

IsNumber(x) == x.t \in {"int", "float", "bool"}

\* the item f returns and the heap after self.state["prev"] = dist
CompareLastTwoTerm_f(self, hp, item) ==
    LET dist == item.payload.dist
        prev == hp[self.state].prev
        payload == [id |-> item.payload.id, dist |-> dist]
    IN  [out |-> DataItem(IF IsNumber(dist) /\ IsNumber(prev)
                          THEN [id |-> payload.id, dist |-> payload.dist,
                                lt |-> PyBool(dist.milli < prev.milli)]
                          ELSE payload),
         heap |-> [hp EXCEPT ![self.state] = [prev |-> dist]]]

ComputeStaleTerm(threshold_s, name) ==
    [t |-> "ComputeStaleTerm", name |-> name, _th |-> ToFloat(threshold_s)]

\* age is now - float(item.time), read from the clock when f runs
ComputeStaleTerm_f(self, item, age) ==
    DataItem([stale |-> PyBool(age.milli > self._th.milli)] @@ item.payload)

\* spawn_fun(key); state is where the new CompareLastTwoTerm keeps its dict
spawn_fun(key, state) ==
    [t |-> "pipeline",
     dist |-> ComputeDistanceTerm(<<"dist", key>>),
     cmp |-> CompareLastTwoTerm(<<"cmp", key>>, state),
     stale |-> ComputeStaleTerm(PyFloat(10000), <<"stale", key>>)]

----------------------------------------------------------------------------
(* The streams, operands and source maps the calls are made with *)

\* nesting depth of the formulas the combinators build
MaxDepth == 3

\* nesting depth of the formulas built from the operators of the end-to-end test
MaxChain == 5

SelfType == Type(1, "SelfType", {"lat", "lon"})

IntruderType == Type(2, "IntruderType", {"lat", "lon", "id"})

self_stream == InputStream(SelfType)

intruder == InputStream(IntruderType)

intr_ts == timestamp(intruder)

Streams == {self_stream, intruder, intr_ts}

FieldNames == {"lat", "id", "time"}

RightOperands == {PyInt(10), GLOBAL.time, Function("distance")}

IndexOffsets == {-1, -2, 1}

Periods == {Unit__rmul__(s, PyInt(10)), Unit__rmul__(m, PyInt(10))}

Durations == {Unit__rmul__(s, PyInt(5))}

PlaceholderNames == {"distance_stream", "second", "lt", ""}

CallNames == {"foo"}

CallOperands == {PyInt(10)}

\* the children a caller gives FormulaAST(formula, children)
AstChildren == <<FormulaAST(InputStream__getattr__(intr_ts, "time"), <<>>),
                 FormulaAST(GLOBAL.time, <<>>)>>

\* FTn(name) of the test: a backend placeholder with an empty args list
FTn(name) == [t |-> "ls.FunctionTerm", name |-> name, args |-> <<>>]

ObjKey(type, field) == <<type, PyStr(field)>>

NameKey(type, field) == <<PyStr(type.name), PyStr(field)>>

\* the source_map of test_compile_stale_and_multiplex
TestSourceMap ==
    Dict((ObjKey(IntruderType, "time") :> FTn("source_intruder_time"))
         @@ (ObjKey(IntruderType, "id") :> FTn("source_intruder_id")))

\* both keys of (IntruderType, time) present, with different nodes
BothSourceMap ==
    Dict((ObjKey(IntruderType, "time") :> FTn("by_object"))
         @@ (NameKey(IntruderType, "time") :> FTn("by_name"))
         @@ (NameKey(IntruderType, "id") :> FTn("source_intruder_id")))

SourceMaps == {TestSourceMap, BothSourceMap}

\* the items RandomIntruderSource emits before it is stopped
MaxEvents == 4

\* the ids the source draws with random.randint(1, 5)
Keys == {1, 2}

\* the (lat, lon) pairs the source draws with random.uniform
Positions == {<<PyFloat(3000), PyFloat(4000)>>, <<PyFloat(6000), PyFloat(8000)>>}

\* the time an item has waited when ComputeStaleTerm reads the clock
Ages == {PyFloat(0), PyFloat(11000)}

RECURSIVE Depth(_)

\* the operands of a formula: the target of a TemporalOp is not in args
Operands(f) == (IF f.t = "TemporalOp" THEN <<f.target>> ELSE <<>>) \o f.args

SeqMax(q) == IF Len(q) = 0 THEN 0 ELSE CHOOSE x \in {q[i] : i \in 1..Len(q)} :
                                          \A j \in 1..Len(q) : q[j] <= x

Depth(v) ==
    IF ~IsFormula(v) THEN 0
    ELSE 1 + SeqMax([i \in 1..Len(Operands(v)) |-> Depth(Operands(v)[i])])

----------------------------------------------------------------------------
(* The formula registry of biolanguage.py: the class attributes of          *)
(* FormulaCompiler, a singleton.  An ast node is a record tagged with its    *)
(* class; a dict is a function on the names it holds.                        *)

AstClasses ==
    {"ast.Lambda", "ast.Call", "ast.BoolOp", "ast.UnaryOp", "ast.Name", "ast.List",
     "ast.Constant"}

\* isinstance(x, ast.AST)
IsAST(x) == x.t \in AstClasses

AstName(id) == [t |-> "ast.Name", id |-> id]

AstConstant(value) == [t |-> "ast.Constant", value |-> value]

AstList(elts) == [t |-> "ast.List", elts |-> elts]

AstCall(func, args) == [t |-> "ast.Call", func |-> func, args |-> args]

AstBoolOp(op, values) == [t |-> "ast.BoolOp", op |-> op, values |-> values]

AstUnaryOp(op, operand) == [t |-> "ast.UnaryOp", op |-> op, operand |-> operand]

AstLambda(params, body) == [t |-> "ast.Lambda", args |-> params, body |-> body]

\* a lambda x: <body>: line holds the bodies of the lambdas of its source line,
\* which is what inspect.getsource returns for each of them
Lambda(body, line) == [t |-> "function", name |-> "<lambda>", body |-> body, line |-> line]

\* Formula(ast_node) of biolanguage.py
BioFormula(ast_node) ==
    IF ~IsAST(ast_node) THEN Raise("ValueError")
    ELSE [t |-> "biolanguage.Formula", ast_node |-> ast_node]

\* the first ast.Lambda of the parsed source line; the fallback Lambda around
\* the function itself when it has no source
_lambda_to_ast(func) ==
    IF "line" \in DOMAIN func /\ Len(func.line) > 0
    THEN AstLambda(<<"x">>, AstName(func.line[1]))
    ELSE AstLambda(<<"x">>, AstConstant(func))

\* the class as the state holds it
FormulaCompiler ==
    [_formula_trees |-> _formula_trees, _current_formula_name |-> _current_formula_name,
     log |-> compile_log]

\* a generated name that does not count the stored formulas
AutoName_first(trees) == PyStr("formula_autogen_" \o ToString(1))

\* f"formula_autogen_{len(cls._formula_trees) + 1}"
AutoName(trees) == PyStr("formula_autogen_" \o ToString(Cardinality(DOMAIN trees) + 1))

\* the type dispatch of compile: the AST to store, or the ValueError
compiled_ast_of(trees, f) ==
    IF f.t = "biolanguage.Formula" THEN f.ast_node
    ELSE IF IsAST(f) THEN f
    ELSE IF f.t = "function" THEN _lambda_to_ast(f)
    ELSE IF f.t = "str" /\ f \in DOMAIN trees THEN trees[f]
    ELSE Raise("ValueError")

\* one entry of the log: the arguments of a compile call, the name and the AST
\* it stored, what it returned, and the class attributes before and after it
CompileEntry(f, name, stored_as, compiled_ast, result, before, after) ==
    [op |-> "compile", formula |-> f, name |-> name, stored_as |-> stored_as,
     compiled_ast |-> compiled_ast, result |-> result, before |-> before, after |-> after]

Attributes(cls) ==
    [_formula_trees |-> cls._formula_trees,
     _current_formula_name |-> cls._current_formula_name]

\* what a compile call leaves: the class and the value returned or raised
Outcome(cls, f, name, stored_as, compiled_ast, result, after) ==
    [cls |-> [_formula_trees |-> after._formula_trees,
              _current_formula_name |-> after._current_formula_name,
              log |-> Append(cls.log, CompileEntry(f, name, stored_as, compiled_ast,
                                                   result, Attributes(cls), after))],
     ret |-> result]

\* compile that stores the AST and leaves _current_formula_name as it was
FormulaCompiler_compile_keeping_current(cls, f, name) ==
    LET stored_as == IF name = None THEN AutoName(cls._formula_trees) ELSE name
        compiled_ast == compiled_ast_of(cls._formula_trees, f)
    IN  IF Raised(compiled_ast)
        THEN Outcome(cls, f, name, None, None, compiled_ast, Attributes(cls))
        ELSE Outcome(cls, f, name, stored_as, compiled_ast, BioFormula(compiled_ast),
                     [_formula_trees |-> (stored_as :> compiled_ast) @@ cls._formula_trees,
                      _current_formula_name |-> cls._current_formula_name])

\* compile that stores its argument under the name before it looks at its type
FormulaCompiler_compile_storing_first(cls, f, name) ==
    LET stored_as == IF name = None THEN AutoName(cls._formula_trees) ELSE name
        compiled_ast == compiled_ast_of(cls._formula_trees, f)
    IN  IF Raised(compiled_ast)
        THEN Outcome(cls, f, name, None, None, compiled_ast,
                     [_formula_trees |-> (stored_as :> f) @@ cls._formula_trees,
                      _current_formula_name |-> stored_as])
        ELSE Outcome(cls, f, name, stored_as, compiled_ast, BioFormula(compiled_ast),
                     [_formula_trees |-> (stored_as :> compiled_ast) @@ cls._formula_trees,
                      _current_formula_name |-> stored_as])

\* FormulaCompiler.compile(formula, name)
FormulaCompiler_compile(cls, f, name) ==
    LET stored_as == IF name = None THEN AutoName(cls._formula_trees) ELSE name
        compiled_ast == compiled_ast_of(cls._formula_trees, f)
    IN  IF Raised(compiled_ast)
        THEN Outcome(cls, f, name, None, None, compiled_ast, Attributes(cls))
        ELSE Outcome(cls, f, name, stored_as, compiled_ast, BioFormula(compiled_ast),
                     [_formula_trees |-> (stored_as :> compiled_ast) @@ cls._formula_trees,
                      _current_formula_name |-> stored_as])

\* FormulaCompiler.get_formula_tree(name)
get_formula_tree(cls, name) ==
    LET key == IF name = None THEN cls._current_formula_name ELSE name
    IN  IF key \notin DOMAIN cls._formula_trees THEN Raise("KeyError")
        ELSE LET formula_ast == cls._formula_trees[key]
             IN  IF formula_ast.t = "biolanguage.Formula" THEN formula_ast.ast_node
                 ELSE formula_ast

\* FormulaCompiler.clear_formulas()
clear_formulas(cls) ==
    [_formula_trees |-> <<>>, _current_formula_name |-> None,
     log |-> Append(cls.log, [op |-> "clear_formulas"])]

\* x.ast_node if isinstance(x, Formula) else x
AstNodeOf(x) == IF x.t = "biolanguage.Formula" THEN x.ast_node ELSE x

\* ast.List(elts=[ast.Constant(interval[0]), ast.Constant(interval[1])])
IntervalAst(interval) == AstList(<<AstConstant(interval[1]), AstConstant(interval[2])>>)

\* rolling_window(interval, map_func, reduce_func): a compile that raises ends it
rolling_window(cls, interval, map_func, reduce_func) ==
    LET map_lambda_ast == FormulaCompiler_compile(cls, map_func, None) IN
    IF Raised(map_lambda_ast.ret) THEN map_lambda_ast
    ELSE LET reduce_lambda_ast ==
                 FormulaCompiler_compile(map_lambda_ast.cls, reduce_func, None) IN
         IF Raised(reduce_lambda_ast.ret) THEN reduce_lambda_ast
         ELSE FormulaCompiler_compile(
                  reduce_lambda_ast.cls,
                  AstCall(AstName("rolling_window"),
                          <<IntervalAst(interval), AstNodeOf(map_lambda_ast.ret),
                            AstNodeOf(reduce_lambda_ast.ret)>>),
                  None)

\* since(formula1, formula2, interval): a compile that raises ends it
since(cls, formula1, formula2, interval) ==
    LET formula1_ast == FormulaCompiler_compile(cls, formula1, None) IN
    IF Raised(formula1_ast.ret) THEN formula1_ast
    ELSE LET formula2_ast == FormulaCompiler_compile(formula1_ast.cls, formula2, None) IN
         IF Raised(formula2_ast.ret) THEN formula2_ast
         ELSE FormulaCompiler_compile(
                  formula2_ast.cls,
                  AstCall(AstName("since"),
                          <<AstNodeOf(formula1_ast.ret), AstNodeOf(formula2_ast.ret),
                            IntervalAst(interval)>>),
                  None)

\* self & other
BioFormula__and__(cls, self, other) ==
    FormulaCompiler_compile(cls, AstBoolOp("And", <<AstNodeOf(self.ast_node), AstNodeOf(other)>>),
                            None)

\* self | other
BioFormula__or__(cls, self, other) ==
    FormulaCompiler_compile(cls, AstBoolOp("Or", <<AstNodeOf(self.ast_node), AstNodeOf(other)>>),
                            None)

\* ~self
BioFormula__invert__(cls, self) ==
    FormulaCompiler_compile(cls, AstUnaryOp("Not", AstNodeOf(self.ast_node)), None)

\* the threads that call the registry at the same time
Threads == {1, 2}

----------------------------------------------------------------------------
(* Actions *)

Init ==
    /\ formula = None
    /\ ast = None
    /\ ir = None
    /\ source_map = None
    /\ backend = None
    /\ pc = "build"
    /\ hooks = None
    /\ calls = <<>>
    /\ heap = <<>>
    /\ spawned = [id \in Keys |-> None]
    /\ inbox = [id \in Keys |-> <<>>]
    /\ printed = [id \in Keys |-> <<>>]
    /\ emitted = 0
    /\ _formula_trees = <<>>
    /\ _current_formula_name = None
    /\ compile_log = <<>>
    /\ returned = None
    /\ ncalls = 0
    /\ tpc = [th \in Threads |-> "start"]
    /\ tlocal = [th \in Threads |-> [formula |-> None, name |-> None, compiled_ast |-> None]]

\* a combinator is applied to the formula built so far, up to nesting depth d
Building(d) == pc = "build" /\ formula # None /\ Depth(formula) < d

Build(f) ==
    /\ formula' = f
    /\ UNCHANGED <<ast, ir, source_map, backend, pc, hooks, calls>>
    /\ UNCHANGED sponge_vars
    /\ UNCHANGED registry_vars
    /\ UNCHANGED thread_vars

\* stream.name
GetFieldOf(streams, names) ==
    /\ pc = "build" /\ formula = None
    /\ \E stream \in streams, name \in names :
          /\ ~Raised(InputStream__getattr__(stream, name))
          /\ Build(InputStream__getattr__(stream, name))

\* formula < other
LtOf(d, others) ==
    Building(d) /\ \E other \in others : Build(Formula__lt__(formula, other))

\* formula > other
GtOf(d, others) ==
    Building(d) /\ \E other \in others : Build(Formula__gt__(formula, other))

\* formula - other
SubOf(d, others) ==
    Building(d) /\ \E other \in others : Build(Formula__sub__(formula, other))

\* formula.every(period)
EveryOf(d, periods) ==
    Building(d) /\ \E period \in periods : Build(Formula_every(formula, period))

\* formula.last()
LastOf(d) == Building(d) /\ Build(Formula_last(formula))

GetField == GetFieldOf(Streams, FieldNames)

\* GLOBAL.time
GetGlobalTime ==
    /\ pc = "build" /\ formula = None
    /\ Build(GLOBAL.time)

\* Formula(name)
Placeholder ==
    /\ pc = "build" /\ formula = None
    /\ \E name \in PlaceholderNames : Build(Formula(name, <<>>))

\* Formula(name, formula, other)
CallFormula ==
    /\ Building(MaxDepth)
    /\ \E name \in CallNames, other \in CallOperands :
          Build(Formula(name, <<formula, other>>))

Lt == LtOf(MaxDepth, RightOperands)

Gt == GtOf(MaxDepth, RightOperands)

Sub == SubOf(MaxDepth, RightOperands)

\* formula[k]
GetItem ==
    Building(MaxDepth) /\ \E k \in IndexOffsets : Build(Formula__getitem__(formula, PyInt(k)))

Every == EveryOf(MaxDepth, Periods)

Last == LastOf(MaxDepth)

\* H(duration, formula)
Always == Building(MaxDepth) /\ \E duration \in Durations : Build(H(duration, formula))

\* multiplex_id(formula, id_from=intruder.id, eos_from=GLOBAL.time > 10)
MultiplexId ==
    /\ Building(MaxDepth)
    /\ Build(multiplex_id(formula, InputStream__getattr__(intruder, "id"),
                          Formula__gt__(GLOBAL.time, PyInt(10))))

\* formula.compile() that empties the args of the formula it has compiled
CompileClearing ==
    /\ pc = "build" /\ formula # None
    /\ ast' = Formula_to_ast(formula)
    /\ ir' = Formula_compile(formula)
    /\ pc' = "compiled"
    /\ formula' = [formula EXCEPT !.args = <<>>]
    /\ UNCHANGED <<source_map, backend, hooks, calls>>
    /\ UNCHANGED sponge_vars
    /\ UNCHANGED registry_vars
    /\ UNCHANGED thread_vars

\* formula.compile()
Compile ==
    /\ pc = "build" /\ formula # None
    /\ ast' = Formula_to_ast(formula)
    /\ ir' = Formula_compile(formula)
    /\ pc' = "compiled"
    /\ UNCHANGED <<formula, source_map, backend, hooks, calls>>
    /\ UNCHANGED sponge_vars
    /\ UNCHANGED registry_vars
    /\ UNCHANGED thread_vars

\* FormulaAST(formula, children).compile_to_circuit()
CompileToCircuit ==
    /\ pc = "build" /\ formula # None
    /\ ast' = FormulaAST(formula, AstChildren)
    /\ ir' = FormulaAST_compile_to_circuit(FormulaAST(formula, AstChildren))
    /\ pc' = "compiled"
    /\ UNCHANGED <<formula, source_map, backend, hooks, calls>>
    /\ UNCHANGED sponge_vars
    /\ UNCHANGED registry_vars
    /\ UNCHANGED thread_vars

\* compile_to_ls(ir, source_map=sm, resolve_source=rs, make_const=mc, make_call=mk)
CompileToLSWith(maps, resolvers, const_hooks, call_hooks) ==
    /\ pc = "compiled" /\ ~Raised(ir)
    /\ \E sm \in maps, rs \in resolvers, mc \in const_hooks, mk \in call_hooks :
          /\ source_map' = sm
          /\ hooks' = [resolve_source |-> rs, make_const |-> mc, make_call |-> mk]
          /\ backend' = compile_to_ls(ir, sm, rs, mc, mk)
          /\ calls' = compile_to_ls_calls(ir, sm, rs, mc, mk)
    /\ pc' = "done"
    /\ UNCHANGED <<formula, ast, ir>>
    /\ UNCHANGED sponge_vars
    /\ UNCHANGED registry_vars
    /\ UNCHANGED thread_vars

\* compile_to_ls(ir, source_map=sm)
CompileToLSOf(maps) == CompileToLSWith(maps, {None}, {None}, {None})

CompileToLS == CompileToLSOf(SourceMaps)

Next ==
    \/ GetField \/ GetGlobalTime \/ Placeholder \/ CallFormula
    \/ Lt \/ Gt \/ Sub \/ GetItem \/ Every \/ Last \/ Always \/ MultiplexId
    \/ Compile \/ CompileToCircuit \/ CompileToLS

Spec == Init /\ [][Next]_vars

----------------------------------------------------------------------------
(* The end-to-end scenario of test_compile_stale_and_multiplex: the formulas *)
(* built from intr_ts.time with last, - GLOBAL.time, > 10, every(10 s).      *)

StaleField == GetFieldOf({intr_ts}, {"time"})

StaleLast == LastOf(MaxChain)

StaleSub == SubOf(MaxChain, {GLOBAL.time})

StaleGt == GtOf(MaxChain, {PyInt(10)})

StaleEvery == EveryOf(MaxChain, {Unit__rmul__(s, PyInt(10))})

StaleCompileToLS == CompileToLSOf({TestSourceMap})

NextStale ==
    \/ StaleField \/ StaleLast \/ StaleSub \/ StaleGt \/ StaleEvery
    \/ Compile \/ StaleCompileToLS

SpecStale == Init /\ [][NextStale]_vars

----------------------------------------------------------------------------
(* Several stream objects over one declared type: two InputStream objects    *)
(* over IntruderType and the timestamp() wrapper of each.                    *)

\* a further InputStream(type) object: equal fields, an identity of its own
InputStreamAt(addr, type) ==
    [t |-> "InputStream", type |-> type, _fields |-> type.annotations, addr |-> addr]

intruder_b == InputStreamAt(1, IntruderType)

SameTypeStreams == {intruder, intruder_b, intr_ts, timestamp(intruder_b)}

StreamsField == GetFieldOf(SameTypeStreams, FieldNames)

StreamsCompileToLS == CompileToLSOf(SourceMaps)

NextStreams ==
    \/ StreamsField \/ StaleLast \/ StaleGt \/ Compile \/ StreamsCompileToLS

SpecStreams == Init /\ [][NextStreams]_vars

----------------------------------------------------------------------------
(* Calls on the formula registry, one after the other.                       *)

\* the calls made on the registry in one run
MaxCalls == 3

\* lambda x: p alone on its line; lambda x: q written after it on one line;
\* a builtin, which has no source
LambdaP == Lambda("p", <<"p">>)

LambdaQ == Lambda("q", <<"p", "q">>)

RegistryInputs == {LambdaP, Function("len"), AstName("p"), PyStr("phi"), PyInt(5)}

\* the names callers give: one of their own, one shaped like a generated name
UserNames == {PyStr("phi"), PyStr("formula_autogen_2")}

Interval == <<PyInt(0), PyInt(5)>>

\* a call on the registry ends: the class attributes, the log, the value returned
Registered(outcome) ==
    /\ _formula_trees' = outcome.cls._formula_trees
    /\ _current_formula_name' = outcome.cls._current_formula_name
    /\ compile_log' = outcome.cls.log
    /\ returned' = outcome.ret
    /\ ncalls' = ncalls + 1
    /\ UNCHANGED compile_vars
    /\ UNCHANGED sponge_vars
    /\ UNCHANGED thread_vars

\* FormulaCompiler.compile(formula, name), also of the value the last call returned
RegistryCompile ==
    /\ ncalls < MaxCalls
    /\ \E f \in RegistryInputs \cup (IF Raised(returned) THEN {} ELSE {returned}),
          name \in {None} \cup UserNames :
          Registered(FormulaCompiler_compile(FormulaCompiler, f, name))

\* since(formula1, formula2, [0, 5])
Since ==
    /\ ncalls < MaxCalls
    /\ \E formula1, formula2 \in {LambdaP, LambdaQ, PyInt(5)} :
          Registered(since(FormulaCompiler, formula1, formula2, Interval))

\* rolling_window([0, 5], map_func, reduce_func)
RollingWindow ==
    /\ ncalls < MaxCalls
    /\ \E map_func, reduce_func \in {LambdaP, PyInt(5)} :
          Registered(rolling_window(FormulaCompiler, Interval, map_func, reduce_func))

\* returned & other, returned | other, ~returned
Connective ==
    /\ ncalls < MaxCalls
    /\ returned.t = "biolanguage.Formula"
    /\ \/ \E other \in {returned, AstName("q")} :
             \/ Registered(BioFormula__and__(FormulaCompiler, returned, other))
             \/ Registered(BioFormula__or__(FormulaCompiler, returned, other))
       \/ Registered(BioFormula__invert__(FormulaCompiler, returned))

\* FormulaCompiler.get_formula_tree(name)
GetFormulaTree ==
    /\ ncalls < MaxCalls
    /\ \E name \in {None} \cup UserNames :
          returned' = get_formula_tree(FormulaCompiler, name)
    /\ ncalls' = ncalls + 1
    /\ UNCHANGED <<_formula_trees, _current_formula_name, compile_log>>
    /\ UNCHANGED compile_vars
    /\ UNCHANGED sponge_vars
    /\ UNCHANGED thread_vars

\* FormulaCompiler.clear_formulas()
ClearFormulas ==
    /\ ncalls < MaxCalls
    /\ _formula_trees' = clear_formulas(FormulaCompiler)._formula_trees
    /\ _current_formula_name' = clear_formulas(FormulaCompiler)._current_formula_name
    /\ compile_log' = clear_formulas(FormulaCompiler).log
    /\ returned' = None
    /\ ncalls' = ncalls + 1
    /\ UNCHANGED compile_vars
    /\ UNCHANGED sponge_vars
    /\ UNCHANGED thread_vars

NextRegistry ==
    \/ RegistryCompile \/ Since \/ RollingWindow \/ Connective
    \/ GetFormulaTree \/ ClearFormulas

SpecRegistry == Init /\ [][NextRegistry]_vars

----------------------------------------------------------------------------
(* Two threads, each in one FormulaCompiler.compile(formula) without a name. *)
(* A thread can be preempted between any two statements of compile; the      *)
(* class attributes are read on line 93 and written on lines 113 and 114.    *)

ThreadFormulas == {LambdaP, Function("len"), AstName("p")}

ThreadStep(th, from, to, locals) ==
    /\ tpc[th] = from
    /\ tpc' = [tpc EXCEPT ![th] = to]
    /\ tlocal' = [tlocal EXCEPT ![th] = locals]

\* lines 92-93: name = f"formula_autogen_{len(cls._formula_trees) + 1}"
ThreadName(th) ==
    /\ \E f \in ThreadFormulas :
          /\ \A other \in Threads \ {th} : tlocal[other].formula # f
          /\ ThreadStep(th, "start", "named",
                        [tlocal[th] EXCEPT !.formula = f,
                                           !.name = AutoName(_formula_trees)])
    /\ UNCHANGED registry_vars
    /\ UNCHANGED compile_vars
    /\ UNCHANGED sponge_vars

\* lines 96-110: the type dispatch
ThreadConvert(th) ==
    /\ ThreadStep(th, "named",
                  IF Raised(compiled_ast_of(_formula_trees, tlocal[th].formula))
                  THEN "raised" ELSE "converted",
                  [tlocal[th] EXCEPT
                      !.compiled_ast = compiled_ast_of(_formula_trees, tlocal[th].formula)])
    /\ UNCHANGED registry_vars
    /\ UNCHANGED compile_vars
    /\ UNCHANGED sponge_vars

\* line 113: cls._formula_trees[name] = compiled_ast
ThreadStore(th) ==
    /\ ThreadStep(th, "converted", "stored", tlocal[th])
    /\ _formula_trees' = (tlocal[th].name :> tlocal[th].compiled_ast) @@ _formula_trees
    /\ UNCHANGED <<_current_formula_name, compile_log, returned, ncalls>>
    /\ UNCHANGED compile_vars
    /\ UNCHANGED sponge_vars

\* lines 114-117: cls._current_formula_name = name; return Formula(compiled_ast)
ThreadReturn(th) ==
    /\ ThreadStep(th, "stored", "done", tlocal[th])
    /\ _current_formula_name' = tlocal[th].name
    /\ UNCHANGED <<_formula_trees, compile_log, returned, ncalls>>
    /\ UNCHANGED compile_vars
    /\ UNCHANGED sponge_vars

NextThreads ==
    \E th \in Threads :
        ThreadName(th) \/ ThreadConvert(th) \/ ThreadStore(th) \/ ThreadReturn(th)

SpecThreads == Init /\ [][NextThreads]_vars

----------------------------------------------------------------------------
(* Operands of every host type: stream.field op x, for x a formula, a Period, *)
(* a Unit, a number, a string, a bool, None, a tuple or a function.           *)

\* nesting depth of the formulas built with operands of every host type
OperandDepth == 2

HostOperands ==
    {GLOBAL.time, Unit__rmul__(s, PyInt(10)), m, PyInt(10), PyFloat(1500),
     PyStr("x"), PyBool(TRUE), None, PyTuple(<<PyInt(1), PyInt(2)>>),
     Function("distance")}

OperandField == GetFieldOf({intr_ts}, {"time", "id"})

OperandLt == LtOf(OperandDepth, HostOperands)

OperandGt == GtOf(OperandDepth, HostOperands)

OperandSub == SubOf(OperandDepth, HostOperands)

\* formula[x]
OperandGetItem ==
    Building(OperandDepth) /\ \E x \in HostOperands : Build(Formula__getitem__(formula, x))

OperandCompileToLS == CompileToLSOf({TestSourceMap})

NextOperand ==
    \/ OperandField \/ OperandLt \/ OperandGt \/ OperandSub \/ OperandGetItem
    \/ Compile \/ OperandCompileToLS

SpecOperand == Init /\ [][NextOperand]_vars

----------------------------------------------------------------------------
(* compile_to_ls with the caller's own hooks, on the formulas of the test's   *)
(* operators and one operand that is a function                               *)

EmptySourceMap == Dict(<<>>)

HooksSub == SubOf(MaxChain, {GLOBAL.time, Function("distance")})

HooksCompileToLS ==
    CompileToLSWith({None, TestSourceMap},
                    {None, SourceResolver(BothSourceMap), SourceResolver(EmptySourceMap)},
                    {None, StrictMakeConst},
                    {None, StrictMakeCall})

NextHooks ==
    \/ StaleField \/ StaleLast \/ HooksSub \/ StaleGt \/ StaleEvery
    \/ Compile \/ HooksCompileToLS

SpecHooks == Init /\ [][NextHooks]_vars

----------------------------------------------------------------------------
(* The running sponge of run_random_intruder_sponge *)

\* one turn of RandomIntruderSource.run; DynamicSpawnTerm spawns the pipeline
\* of an id it has not seen and routes the item to the pipeline of its id
SourceRun ==
    /\ emitted < MaxEvents
    /\ \E id \in Keys, pos \in Positions :
          LET di == DataItem([id |-> PyInt(id), lat |-> pos[1], lon |-> pos[2]]) IN
          /\ IF spawned[id] = None
             THEN /\ heap' = Append(heap, [prev |-> None])
                  /\ spawned' = [spawned EXCEPT ![id] = spawn_fun(id, Len(heap) + 1)]
             ELSE UNCHANGED <<heap, spawned>>
          /\ inbox' = [inbox EXCEPT ![id] = Append(@, di)]
    /\ emitted' = emitted + 1
    /\ UNCHANGED printed
    /\ UNCHANGED compile_vars
    /\ UNCHANGED registry_vars
    /\ UNCHANGED thread_vars

\* the pipeline of id takes its next item through dist, cmp, stale and Print
Process(id) ==
    /\ spawned[id] # None /\ inbox[id] # <<>>
    /\ \E age \in Ages :
          LET pipeline == spawned[id]
              d == ComputeDistanceTerm_f(pipeline.dist, Head(inbox[id]))
              cmp == CompareLastTwoTerm_f(pipeline.cmp, heap, d)
              out == ComputeStaleTerm_f(pipeline.stale, cmp.out, age)
          IN  /\ heap' = cmp.heap
              /\ printed' = [printed EXCEPT ![id] = Append(@, out)]
    /\ inbox' = [inbox EXCEPT ![id] = Tail(@)]
    /\ UNCHANGED <<spawned, emitted>>
    /\ UNCHANGED compile_vars
    /\ UNCHANGED registry_vars
    /\ UNCHANGED thread_vars

PipelineRun == \E id \in Keys : Process(id)

NextMux == SourceRun \/ PipelineRun

SpecMux == Init /\ [][NextMux]_vars

----------------------------------------------------------------------------
(* Helpers of the properties *)

\* the backend tree name(args) and the backend constant of a value
Call(name, args) == [t |-> "ls.FunctionTerm", name |-> name, args |-> args]

Const(value) ==
    [t |-> "ls.FunctionTerm", name |-> "const", value |-> value, args |-> <<value>>]

RECURSIVE IRNodes(_), BackendNodes(_), SubFormulas(_)

\* every node of an IR tree
IRNodes(x) ==
    IF "args" \notin DOMAIN x THEN {}
    ELSE {x} \cup UNION {IRNodes(x.args[i]) : i \in 1..Len(x.args)}

\* every node of a backend tree; the args of a const hold its value, not a node
BackendNodes(x) ==
    IF "name" \notin DOMAIN x THEN {}
    ELSE IF x.name = "const" THEN {x}
    ELSE {x} \cup UNION {BackendNodes(x.args[i]) : i \in 1..Len(x.args)}

\* a formula and every formula among its operands, at any depth
SubFormulas(x) ==
    IF ~IsFormula(x) THEN {}
    ELSE {x} \cup UNION {SubFormulas(Operands(x)[i]) : i \in 1..Len(Operands(x))}

Translated == pc = "done" /\ ~Raised(backend)

----------------------------------------------------------------------------
(* C1 *)

\* ((intr_ts.time.last() - GLOBAL.time) > 10).every(10 * s)
StaleFormula ==
    Formula_every(
        Formula__gt__(
            Formula__sub__(Formula_last(InputStream__getattr__(intr_ts, "time")),
                           GLOBAL.time),
            PyInt(10)),
        Unit__rmul__(s, PyInt(10)))

\* every(gt(sub(last(source(time)), global_time), const(10)), const(10.0))
StaleBackend ==
    Call("every",
         <<Call("gt",
                <<Call("sub",
                       <<Call("last", <<FTn("source_intruder_time")>>),
                         Call("global_time", <<>>)>>),
                  Const(PyInt(10))>>),
           Const(PyFloat(10000))>>)

StaleTranslated == pc = "done" /\ formula = StaleFormula /\ source_map = TestSourceMap

\* C1: the stale formula of the test, compiled with Formula.compile() and
\* translated with the test's source map, gives exactly the backend tree
\* every(gt(sub(last(source), global_time), const(10)), const(10.0)).
C1_EndToEnd == StaleTranslated => backend = StaleBackend

C1_Witness == StaleTranslated /\ ~Raised(backend) /\ backend.name = "every"

----------------------------------------------------------------------------
(* C3 *)

\* magnitude * scale of a Period, in seconds
Seconds(p) == PyFloat((p.value.milli * p.unit.to_seconds.milli) \div 1000)

\* the IR leaf that carries a Period as it was given
RawPeriodLeaf(p) ==
    [t |-> "PeriodTerm", function_name |-> "period", args |-> <<>>, period |-> p]

\* the IR leaf that holds a Period's duration in seconds
SecondsLeaf(p) ==
    [t |-> "ConstantTerm", function_name |-> "const", args |-> <<>>, value |-> Seconds(p)]

Compiled == pc # "build" /\ ~Raised(ir)

EveryPeriod == formula.t = "TemporalOp" /\ formula.op = "every" /\ formula.args[1].t = "Period"

AlwaysPeriod == formula.t = "AlwaysOperator" /\ formula.duration.t = "Period"

\* C3 (as stated): in the IR of Formula.compile() a Period operand is a
\* constant of seconds and no IR node carries a raw magnitude+unit pair.
C3_NormalizedInStage1 ==
    Compiled =>
        /\ EveryPeriod => ir.args[2] = SecondsLeaf(formula.args[1])
        /\ AlwaysPeriod => ir.args[1] = SecondsLeaf(formula.duration)
        /\ \A n \in IRNodes(ir) : n.t # "PeriodTerm"

\* C3 (amended): the IR carries each Period operand of every(...) and H(...) as
\* a PeriodTerm leaf holding the raw Period; compile_to_ls turns it into the
\* constant magnitude * scale, and no backend constant holds a Period or Unit.
C3_NormalizedInStage2 ==
    /\ Compiled =>
          /\ EveryPeriod => ir.args[2] = RawPeriodLeaf(formula.args[1])
          /\ AlwaysPeriod => ir.args[1] = RawPeriodLeaf(formula.duration)
          /\ \A n \in IRNodes(ir) :
                /\ n.function_name = "every" => n.args[2].t = "PeriodTerm"
                /\ n.function_name = "always" => n.args[1].t = "PeriodTerm"
    /\ Translated =>
          /\ EveryPeriod => backend.args[2] = Const(Seconds(formula.args[1]))
          /\ AlwaysPeriod => backend.args[1] = Const(Seconds(formula.duration))
          /\ \A b \in BackendNodes(backend) :
                b.name = "const" => b.value.t \notin {"Period", "Unit"}

C3_Witness ==
    /\ Translated /\ EveryPeriod
    /\ formula.args[1] = Unit__rmul__(m, PyInt(10))
    /\ ir.args[2].t = "PeriodTerm"
    /\ backend.args[2] = Const(PyFloat(600000))

----------------------------------------------------------------------------
(* C4 *)

DispatchedNames ==
    {"field_access", "binary_op", "lt", "gt", "sub", "index", "every", "last",
     "always", "multiplex", "global_time", "second"}

\* a Formula(name, ...) whose name has no visit_ method, compiled by compile()
GenericCompiled ==
    /\ Compiled /\ ast = Formula_to_ast(formula)
    /\ formula.t = "Formula" /\ op_key(formula.op) \notin DispatchedNames

\* C4: Formula(name, a, b).compile() with a name that has no translation rule
\* is the IR call node of that name whose children are the compiled a, b.
C4_FallbackKeepsChildren ==
    GenericCompiled =>
        /\ ir.function_name = formula.op
        /\ Len(ir.args) = Len(formula.args)
        /\ \A i \in 1..Len(formula.args) : ir.args[i] = _compile_operand(formula.args[i])

----------------------------------------------------------------------------
(* C5 *)

Vocabulary ==
    {"source", "const", "lt", "gt", "sub", "index", "last", "every", "always",
     "multiplex", "global_time", "external"}

\* the nodes the caller's source map holds
Resolved(sm) == {sm.items[k] : k \in DOMAIN sm.items}

RECURSIVE MadeNames(_, _)

\* the names of the nodes of a backend tree that make_call and make_const made
MadeNames(x, given) ==
    IF x \in given THEN {}
    ELSE IF x.name = "const" THEN {"const"}
    ELSE {x.name} \cup UNION {MadeNames(x.args[i], given) : i \in 1..Len(x.args)}

\* the operator names of the bare Formula(name, ...) nodes given to stage 1
PlaceholderOps ==
    {f.op : f \in {g \in SubFormulas(ast.formula)
                        \cup UNION {SubFormulas(ast.children[i].formula) :
                                       i \in 1..Len(ast.children)} :
                    g.t = "Formula"}}

\* C5 (as stated): every name stage 2 gives a node lies in the vocabulary.
C5_VocabularyOnly ==
    Translated => MadeNames(backend, Resolved(source_map)) \subseteq Vocabulary

\* C5 (amended): every name stage 2 gives a node lies in the vocabulary or is
\* the operator name of a bare Formula(name, ...) placeholder of the formula
\* ("unknown" when that name is empty).
C5_VocabularyOrPlaceholder ==
    Translated =>
        MadeNames(backend, Resolved(source_map))
            \subseteq Vocabulary \cup {fallback_name(op) : op \in PlaceholderOps}

C5_Witness ==
    /\ Translated
    /\ {"distance_stream", "every"} \subseteq MadeNames(backend, Resolved(source_map))

----------------------------------------------------------------------------
(* C6 *)

\* the compiler object compile_to_ls builds for the call made
Compiler == PystreamvToLSCompiler(SourceResolver(source_map), None, None)

Unrecognized(n) == n.t = "FunctionTerm" /\ n.function_name \notin KnownNames

TranslatedArgs(n) == [i \in 1..Len(n.args) |-> _compile_node(Compiler, n.args[i])]

OwnName(n) == IF n.function_name = "" THEN "unknown" ELSE n.function_name

----------------------------------------------------------------------------
(* C7 *)

HasObjKey(n) == ObjKey(n.stream_type, n.field) \in DOMAIN source_map.items

HasNameKey(n) == NameKey(n.stream_type, n.field) \in DOMAIN source_map.items

\* the node the resolution order of the claim gives source n
ResolvedBy(n) ==
    IF HasObjKey(n) THEN source_map.items[ObjKey(n.stream_type, n.field)]
    ELSE source_map.items[NameKey(n.stream_type, n.field)]

\* C7: a source is resolved to the entry keyed by its type object whenever
\* there is one, and to the entry keyed by the type's name only otherwise.
C7_ObjectKeyFirst ==
    /\ (pc = "done" /\ ir.t = "SourceTerm" /\ (HasObjKey(ir) \/ HasNameKey(ir))) =>
          backend = ResolvedBy(ir)
    /\ Translated =>
          \A n \in IRNodes(ir) :
              n.t = "SourceTerm" => ResolvedBy(n) \in BackendNodes(backend)

C7_Witness ==
    /\ pc = "done" /\ ir.t = "SourceTerm"
    /\ HasObjKey(ir) /\ HasNameKey(ir)
    /\ source_map.items[NameKey(ir.stream_type, ir.field)] = FTn("by_name")
    /\ backend = FTn("by_object")

----------------------------------------------------------------------------
(* C8 *)

Unresolvable(n) == n.t = "SourceTerm" /\ ~HasObjKey(n) /\ ~HasNameKey(n)

\* C8: when the IR holds, at any depth, a source with neither key in the source
\* map, compile_to_ls raises KeyError and returns no node.
C8_UnresolvableRaises ==
    (pc = "done" /\ \E n \in IRNodes(ir) : Unresolvable(n)) =>
        backend = [t |-> "raise", exc |-> "KeyError"]

C8_Witness ==
    /\ pc = "done" /\ Depth(formula) = MaxDepth
    /\ ~Unresolvable(ir) /\ \E n \in IRNodes(ir) : Unresolvable(n)
    /\ \E n \in IRNodes(ir) : n.t = "SourceTerm" /\ ~Unresolvable(n)
    /\ Raised(backend)

----------------------------------------------------------------------------
(* C9 *)

\* the translation an operand gets when compiled and translated on its own
Tr(x) == compile_to_ls(_compile_operand(x), source_map, None, None, None)

BinaryName(op) == CASE op = "<" -> "lt" [] op = ">" -> "gt" [] op = "-" -> "sub"

\* C9: L op R, op one of <, >, -, is translated to the node named lt, gt, sub
\* with exactly two children: the translation of L, then the translation of R.
C9_BinaryShape ==
    (Translated /\ formula.t = "BinaryOp") =>
        /\ backend.name = BinaryName(formula.op)
        /\ Len(backend.args) = 2
        /\ backend.args[1] = Tr(formula.left)
        /\ backend.args[2] = Tr(formula.right)

C9_Witness ==
    /\ Translated /\ formula.t = "BinaryOp" /\ formula.op = "-"
    /\ IsFormula(formula.right) /\ backend.name = "sub"
    /\ backend.args[1] # backend.args[2]

----------------------------------------------------------------------------
(* C10 *)

\* C10: target[k] is translated to the node named index whose first child is
\* the translated target and whose second child is the constant k.
C10_IndexOffset ==
    (Translated /\ formula.t = "IndexOp") =>
        /\ backend.name = "index"
        /\ Len(backend.args) = 2
        /\ backend.args[1] = Tr(formula.target)
        /\ backend.args[2].name = "const"
        /\ backend.args[2].value = formula.index

C10_Witness ==
    /\ Translated /\ formula.t = "IndexOp"
    /\ formula.index = PyInt(-2) /\ backend.args[2] = Const(PyInt(-2))

----------------------------------------------------------------------------
(* C11 *)

\* the backend tree of a formula compiled with Formula.compile() on its own
OnItsOwn(f) == compile_to_ls(Formula_compile(f), source_map, None, None, None)

\* C11: multiplex_id(output, id_from, eos_from) is translated to the node named
\* multiplex with exactly three children, in the order output, id source, eos
\* source, and the first child is the tree output gets when compiled alone.
C11_MultiplexOrder ==
    (Translated /\ formula.t = "MultiplexFormula") =>
        /\ backend.name = "multiplex"
        /\ Len(backend.args) = 3
        /\ backend.args[1] = OnItsOwn(formula.output)
        /\ backend.args[2] = OnItsOwn(formula.id_from)
        /\ backend.args[3] = OnItsOwn(formula.eos_from)

C11_Witness ==
    /\ Translated /\ formula.t = "MultiplexFormula"
    /\ formula.output.t = "TemporalOp" /\ backend.args[1].name = "every"
    /\ backend.args[2] = FTn("source_intruder_id")
    /\ backend.args[3].name = "gt"

----------------------------------------------------------------------------
(* C12 *)

\* the Period v * u of an integer magnitude v
IsPeriodOf(p, v, u) == p.value = PyFloat(v * 1000) /\ p.unit = u

\* C12: the second child of the backend every node of target.every(v * u) is
\* the constant v * scale(u), which is Period.to_seconds(): 10.0 for 10 * s
\* and 600.0 for 10 * m.
C12_ExactSeconds ==
    (Translated /\ EveryPeriod) =>
        /\ backend.name = "every"
        /\ backend.args[2].name = "const"
        /\ backend.args[2].value = Period_to_seconds(formula.args[1])
        /\ backend.args[2].value.milli =
              (formula.args[1].value.milli \div 1000) * formula.args[1].unit.to_seconds.milli
        /\ IsPeriodOf(formula.args[1], 10, s) => backend.args[2].value = PyFloat(10000)
        /\ IsPeriodOf(formula.args[1], 10, m) => backend.args[2].value = PyFloat(600000)

C12_Witness ==
    /\ Translated /\ EveryPeriod
    /\ IsPeriodOf(formula.args[1], 10, s)
    /\ Period_to_seconds(formula.args[1]) = PyFloat(10000)
    /\ backend.args[2].value = PyFloat(10000)

----------------------------------------------------------------------------
(* C13 *)

\* every descendant of n translates: no child of n raises
ChildrenTranslate(n) == \A i \in 1..Len(n.args) : ~Raised(TranslatedArgs(n)[i])

\* C13: translating an IR node whose function name stage 2 has no rule for,
\* and whose children translate, returns a backend node and raises nothing.
C13_UnfamiliarTranslates ==
    /\ (pc = "done" /\ Unrecognized(ir) /\ ChildrenTranslate(ir)) =>
          ~Raised(backend) /\ backend.t = "ls.FunctionTerm"
    /\ pc = "done" =>
          \A n \in IRNodes(ir) :
              (Unrecognized(n) /\ ChildrenTranslate(n)) =>
                  ~Raised(_compile_node(Compiler, n))

C13_Witness ==
    /\ pc = "done" /\ Unrecognized(ir) /\ ir.function_name = ""
    /\ backend = Call("unknown", <<>>)

----------------------------------------------------------------------------
(* C14 *)

\* Formula.compile() has been called on the formula built
CompileCalled == pc # "build" /\ ast = Formula_to_ast(formula)

\* C14: Formula.compile() of every formula built with the constructors and
\* combinators, a bare Formula(name, ...) of any name included, returns an IR
\* term and raises nothing.
C14_CompileTotal ==
    CompileCalled => (~Raised(ir) /\ "function_name" \in DOMAIN ir)

----------------------------------------------------------------------------
(* C15 *)

Scalars == {"int", "float", "str", "bool"}

\* an IR constant leaf and an IR external-call leaf, as the claim names them
ConstantLeaf(value) ==
    [t |-> "ConstantTerm", function_name |-> "const", args |-> <<>>, value |-> value]

ExternalLeaf(value) ==
    [t |-> "ExternalFunctionTerm", function_name |-> "external", args |-> <<>>,
     function |-> value]

BinaryCompiled == Compiled /\ formula.t = "BinaryOp"

\* C15 (as stated): the right operand x of L op x is compiled recursively when
\* it is a Formula, to a constant of the unit's scale when it is a Unit, to a
\* constant of x when it is a number, a string or a bool, and to an external
\* leaf carrying x when it is any other value (a Period has a row of its own
\* in the table and is left aside here).
C15_OperandTable ==
    (BinaryCompiled /\ formula.right.t # "Period") =>
        /\ ir.args[1] = Formula_compile(formula.left)
        /\ ir.args[2] =
              CASE IsFormula(formula.right) -> Formula_compile(formula.right)
                [] formula.right.t = "Unit" -> ConstantLeaf(formula.right.to_seconds)
                [] formula.right.t \in Scalars -> ConstantLeaf(formula.right)
                [] OTHER -> ExternalLeaf(formula.right)

\* C15 (amended): as stated, except that a Unit becomes a UnitTerm leaf
\* carrying the Unit and a Period a PeriodTerm leaf carrying the Period; stage
\* 2 turns the UnitTerm into the constant of the unit's scale.  The class of
\* the leaf tells which one case applied.
C15_OperandLeaves ==
    /\ BinaryCompiled =>
          /\ ir.args[1] = Formula_compile(formula.left)
          /\ ir.args[2] =
                CASE IsFormula(formula.right) -> Formula_compile(formula.right)
                  [] formula.right.t = "Period" -> RawPeriodLeaf(formula.right)
                  [] formula.right.t = "Unit" ->
                        [t |-> "UnitTerm", function_name |-> "unit", args |-> <<>>,
                         unit |-> formula.right]
                  [] formula.right.t \in Scalars -> ConstantLeaf(formula.right)
                  [] OTHER -> ExternalLeaf(formula.right)
          /\ ir.args[2].t = "ExternalFunctionTerm" <=>
                (~IsFormula(formula.right)
                    /\ formula.right.t \notin Scalars \cup {"Period", "Unit"})
    /\ (Translated /\ formula.t = "BinaryOp" /\ formula.right.t = "Unit") =>
          backend.args[2] = Const(formula.right.to_seconds)

C15_Witness ==
    /\ Translated /\ formula.t = "BinaryOp" /\ formula.right = m
    /\ ir.args[2].t = "UnitTerm"
    /\ backend.args[2] = Const(PyFloat(60000))

----------------------------------------------------------------------------
(* C16 *)

\* a step of stage 1 and a step of stage 2
Stage1Step == pc = "build" /\ pc' = "compiled"

Stage2Step == pc = "compiled" /\ pc' = "done"

\* C16: a compile step leaves the formula tree (operators, operands and the
\* field sets of its streams) as it was and touches neither the source map nor
\* the backend; a compile_to_ls step leaves the formula, the AST and the IR it
\* was given as they were, and the source map is still the one the caller
\* built.  Only ast and ir, respectively backend, are written.
C16_InputsUnchanged ==
    [][/\ Stage1Step =>
            (formula' = formula /\ source_map' = source_map /\ backend' = backend)
       /\ Stage2Step =>
            (formula' = formula /\ ast' = ast /\ ir' = ir /\ source_map' \in SourceMaps)
      ]_vars

C16_Witness ==
    /\ Translated /\ Depth(formula) = MaxDepth
    /\ ast = Formula_to_ast(formula) /\ ir = Formula_compile(formula)
    /\ source_map = BothSourceMap
    /\ \E f \in SubFormulas(formula) : f = InputStream__getattr__(intr_ts, "time")

----------------------------------------------------------------------------
(* C17 *)

\* the state held for id: the dict of the CompareLastTwoTerm of its pipeline
StateOf(id) == IF spawned[id] = None THEN None ELSE heap[spawned[id].cmp.state]

\* the eos condition of the demo, stale, was true for the i-th item of id
EosAt(id, i) == printed[id][i].payload.stale.b

\* C17: once stale has been true for an id, the state held for that id is
\* discarded; the next item of the id is handled by an instance that starts
\* empty, so its output carries no comparison with an item from before.
C17_MemorylessRestart ==
    \A id \in Keys :
        \A i \in 1..Len(printed[id]) :
            EosAt(id, i) =>
                /\ i = Len(printed[id]) => (StateOf(id) \in {None, [prev |-> None]})
                /\ i < Len(printed[id]) => "lt" \notin DOMAIN printed[id][i + 1].payload

----------------------------------------------------------------------------
(* C18 *)

\* the step handles no item of id: none is routed to it, none is processed
NoEventOf(id) == inbox'[id] = inbox[id]

\* the pipeline of id has processed an item in this step
Processed(id) == Len(printed'[id]) = Len(printed[id]) + 1

NewOutput(id) == printed'[id][Len(printed'[id])].payload

\* C18: an id becomes active with the first item that carries it; an item of
\* id reads and updates only the state of the id's own instance, and the
\* state, the pending items and the outputs of every other id stay as they
\* were, whatever the order in which items of different ids are handled.
C18_PerKeyIsolation ==
    [][\A id \in Keys :
          /\ NoEventOf(id) =>
                /\ spawned'[id] = spawned[id]
                /\ printed'[id] = printed[id]
                /\ (IF spawned'[id] = None THEN None
                    ELSE heap'[spawned'[id].cmp.state]) = StateOf(id)
          /\ (spawned[id] = None /\ ~NoEventOf(id)) =>
                /\ spawned'[id] # None
                /\ heap'[spawned'[id].cmp.state] = [prev |-> None]
                /\ \A other \in Keys \ {id} :
                      spawned[other] # None =>
                          spawned[other].cmp.state # spawned'[id].cmp.state
          /\ Processed(id) =>
                /\ NewOutput(id).id = PyInt(id)
                /\ ("lt" \in DOMAIN NewOutput(id)) <=> (StateOf(id).prev # None)
                /\ ("lt" \in DOMAIN NewOutput(id)) =>
                      NewOutput(id).lt.b = (NewOutput(id).dist.milli < StateOf(id).prev.milli)
                /\ heap'[spawned'[id].cmp.state] = [prev |-> NewOutput(id).dist]
      ]_vars

C18_Witness ==
    /\ \A id \in Keys : Len(printed[id]) = 2
    /\ printed[1][2].payload.lt.b /\ ~printed[2][2].payload.lt.b
    /\ StateOf(1) # StateOf(2)

----------------------------------------------------------------------------
(* C20 *)

\* C20: no IndexOp whose offset is not an integer is ever constructed:
\* target[x] with such an x raises at build time and leaves no formula.
C20_IntegerOffsetOnly ==
    \A f \in SubFormulas(formula) : f.t = "IndexOp" => f.index.t = "int"

----------------------------------------------------------------------------
(* C21 *)

LastCall == calls[Len(calls)]

\* C21: when a hook raises during a translation, its call is the last hook
\* call made, compile_to_ls raises that same error, and no hook is called
\* twice for one IR node.
C21_ErrorsSurface ==
    pc = "done" =>
        /\ \A i \in 1..Len(calls) :
              Raised(calls[i].result) => (i = Len(calls) /\ backend = calls[i].result)
        /\ (Raised(backend) /\ calls # <<>>) => Raised(LastCall.result)
        /\ \A i, j \in 1..Len(calls) :
              i < j => <<calls[i].hook, calls[i].path>> # <<calls[j].hook, calls[j].path>>

C21_Witness ==
    /\ pc = "done" /\ hooks.make_call = StrictMakeCall
    /\ formula.t = "TemporalOp" /\ formula.op = "every" /\ Len(ir.args) = 2
    /\ Len(calls) >= 3 /\ LastCall.hook = "make_call" /\ LastCall.path # <<>>
    /\ LastCall.result = [t |-> "raise", exc |-> "NotImplementedError"]
    /\ backend = [t |-> "raise", exc |-> "NotImplementedError"]

----------------------------------------------------------------------------
(* The order of the hook calls.                                              *)

\* p names an ancestor of the node q names
IsProperPrefix(p, q) == Len(p) < Len(q) /\ SubSeq(q, 1, Len(p)) = p

\* the first index at which two paths part, when neither is a prefix of the other
FirstDiff(p, q) == CHOOSE k \in 1..Len(p) : k <= Len(q) /\ p[k] # q[k] /\ SubSeq(p, 1, k - 1) = SubSeq(q, 1, k - 1)

Diverge(p, q) == p # q /\ ~IsProperPrefix(p, q) /\ ~IsProperPrefix(q, p)

\* the value the translation of the node at path p returned: what its last hook call gave
ReturnedAt(p) ==
    LET at == {i \in 1..Len(calls) : calls[i].path = p}
    IN  calls[CHOOSE i \in at : \A j \in at : j <= i].result

\* the make_call entries of composite nodes: those that were handed translated children
CompositeCalls ==
    {j \in 1..Len(calls) : calls[j].hook = "make_call" /\ ~Raised(calls[j].result)
                           /\ \E i \in 1..Len(calls) : IsProperPrefix(calls[j].path, calls[i].path)}

\* C22: the hook calls of a translation are in left-to-right post-order: the calls for a child and its descendants come before any call for the next child, the make_call of a node comes after every call for its children, and it receives the translated children in their original order.
C22_PostOrder ==
    pc = "done" =>
        /\ \A i, j \in 1..Len(calls) : i < j =>
              /\ ~IsProperPrefix(calls[i].path, calls[j].path)
              /\ Diverge(calls[i].path, calls[j].path) =>
                    calls[i].path[FirstDiff(calls[i].path, calls[j].path)]
                        < calls[j].path[FirstDiff(calls[i].path, calls[j].path)]
              /\ calls[i].path = calls[j].path => calls[j].hook = "make_call"
        /\ \A j \in CompositeCalls :
              \A k \in 1..Len(calls[j].result.args) :
                  calls[j].result.args[k] = ReturnedAt(calls[j].path \o <<k>>)
        /\ (calls # <<>> /\ ~Raised(backend)) => backend = ReturnedAt(<<>>)

C22_Witness ==
    /\ pc = "done" /\ ~Raised(backend)
    /\ backend.name = "every" /\ backend.args[1].name = "gt"
    /\ Len(calls) >= 6
    /\ LastCall.hook = "make_call" /\ LastCall.path = <<>>
    /\ \E i, j, k \in 1..Len(calls) :
          /\ i < j /\ j < k
          /\ calls[i].path = <<1, 1>> /\ calls[j].path = <<1, 2>> /\ calls[k].path = <<2>>
          /\ calls[i].result # calls[j].result

----------------------------------------------------------------------------
(* The shape of each backend node.                                           *)

\* the number of children the backend node of each opcode has
BackendArity ==
    [every |-> 2, last |-> 1, index |-> 2, lt |-> 2, gt |-> 2, sub |-> 2,
     always |-> 2, multiplex |-> 3, global_time |-> 0]

\* a backend constant of a number of seconds
IsSecondsConst(b) == b.name = "const" /\ b.value.t = "float"

\* C23: in every backend tree translated from a formula built with the DSL, a node named every has exactly 2 children with the period in seconds second, last 1, index 2 with the constant offset second, lt, gt and sub 2, always 2 with the duration in seconds first, multiplex 3 and global_time 0; the children of the root are the translations of the formula's parts in that order.
C23_FixedArity ==
    Translated =>
        /\ \A b \in BackendNodes(backend) :
              /\ b.name \in DOMAIN BackendArity => Len(b.args) = BackendArity[b.name]
              /\ b.name = "every" => IsSecondsConst(b.args[2])
              /\ b.name = "always" => IsSecondsConst(b.args[1])
              /\ b.name = "index" => b.args[2].name = "const" /\ b.args[2].value.t = "int"
        /\ (formula.t = "TemporalOp" /\ formula.op = "every") =>
              backend.args = <<Tr(formula.target), Tr(formula.args[1])>>
        /\ (formula.t = "TemporalOp" /\ formula.op = "last") =>
              backend.args = <<Tr(formula.target)>>
        /\ formula.t = "AlwaysOperator" =>
              backend.args = <<Tr(formula.duration), Tr(formula.condition)>>
        /\ formula.t = "MultiplexFormula" =>
              backend.args = <<Tr(formula.output), Tr(formula.id_from), Tr(formula.eos_from)>>

C23_Witness ==
    /\ Translated /\ formula.t = "MultiplexFormula" /\ backend.name = "multiplex"
    /\ formula.output.t = "AlwaysOperator"
    /\ Len(backend.args) = 3
    /\ backend.args[1].name = "always" /\ IsSecondsConst(backend.args[1].args[1])
    /\ backend.args[3].name = "gt"
    /\ \E b \in BackendNodes(backend) : b.name = "global_time" /\ b.args = <<>>

----------------------------------------------------------------------------
(* How compile_to_ls comes by its resolver.                                  *)

\* the backend nodes a resolver can give
ResolverRange(resolver) == {resolver._mapping[k] : k \in DOMAIN resolver._mapping}

\* what the resolve_source calls of the translation gave, the raising call left out
ResolvedSources ==
    {calls[i].result : i \in {j \in 1..Len(calls) : calls[j].hook = "resolve_source"
                                                     /\ ~Raised(calls[j].result)}}

\* the three source maps a caller of this specification passes, and none
AnySourceMap == {None, TestSourceMap, BothSourceMap, EmptySourceMap}

\* C24: compile_to_ls called with neither resolve_source nor source_map raises ValueError before any hook is called; called with both it resolves every source through resolve_source and its result does not depend on source_map; called with source_map only it resolves through a SourceResolver over that map.
C24_ResolverChoice ==
    pc = "done" =>
        /\ (hooks.resolve_source = None /\ source_map = None) =>
              backend = [t |-> "raise", exc |-> "ValueError"] /\ calls = <<>>
        /\ hooks.resolve_source # None =>
              /\ ResolvedSources \subseteq ResolverRange(hooks.resolve_source)
              /\ \A sm \in AnySourceMap :
                    backend = compile_to_ls(ir, sm, hooks.resolve_source,
                                            hooks.make_const, hooks.make_call)
        /\ (hooks.resolve_source = None /\ source_map # None) =>
              /\ ResolvedSources \subseteq ResolverRange(SourceResolver(source_map))
              /\ backend = PystreamvToLSCompiler_compile(
                               PystreamvToLSCompiler(SourceResolver(source_map),
                                                     hooks.make_const, hooks.make_call), ir)

C24_Witness ==
    /\ pc = "done" /\ ~Raised(backend)
    /\ source_map = TestSourceMap
    /\ hooks.resolve_source = SourceResolver(BothSourceMap)
    /\ ResolvedSources = {FTn("by_object")}
    /\ FTn("by_object") \notin ResolverRange(SourceResolver(source_map))
    /\ FTn("by_object") \in BackendNodes(backend)

----------------------------------------------------------------------------
(* What stage 1 returns, stage 2 accepts.                                    *)

\* the source map has a key for every source of the IR
Covered == \A n \in IRNodes(ir) : ~Unresolvable(n)

\* C26: every IR tree stage 1 returns is accepted by stage 2: with the default hooks and a source map that covers every source of the tree compile_to_ls returns a backend node, and with any source map it never fails on a missing child (IndexError) or a missing attribute of an IR node (AttributeError).
C26_StagesCompatible ==
    (pc = "done" /\ hooks.make_const = None /\ hooks.make_call = None) =>
        /\ Raised(backend) => backend.exc \notin {"IndexError", "AttributeError"}
        /\ Covered => ~Raised(backend) /\ backend.t = "ls.FunctionTerm"

C26_Witness ==
    /\ pc = "done" /\ Covered /\ ~Raised(backend)
    /\ formula.t = "MultiplexFormula" /\ formula.output.t = "TemporalOp"
    /\ formula.output.op = "last" /\ formula.output.target.t = "FieldAccess"
    /\ ir.args[1].function_name = "last" /\ ir.args[1].args[1].t = "SourceTerm"
    /\ backend.args[1].name = "last" /\ Len(backend.args[1].args) = 1

----------------------------------------------------------------------------
(* The stream object a field is read through.                                *)

\* the field accesses of the formula, at any depth
FieldAccesses == {f \in SubFormulas(formula) : f.t = "FieldAccess"}

\* the same field read through another stream object of the same declared type
SameField(f) ==
    {FieldAccess(st, f.field) : st \in {x \in SameTypeStreams : x.type = f.stream.type
                                                                /\ f.field \in x._fields}}

\* C27: the backend source of a field access depends only on the declared type of the stream and on the field name: read through another InputStream object over the same type, or through a timestamp() wrapper, the field compiles to the same source term and resolves to the same backend node, the one the translation holds.
C27_StreamIdentityHidden ==
    pc = "done" =>
        \A f \in FieldAccesses :
            /\ \A g \in SameField(f) :
                  /\ _compile_operand(g) = _compile_operand(f)
                  /\ Tr(g) = Tr(f)
            /\ ~Raised(backend) => Tr(f) \in BackendNodes(backend)
            /\ ~Raised(Tr(f)) => Tr(f) \in Resolved(source_map)

C27_Witness ==
    /\ pc = "done" /\ ~Raised(backend)
    /\ formula.t = "BinaryOp" /\ formula.left.t = "TemporalOp"
    /\ \E f \in FieldAccesses :
          /\ f.stream = intruder_b /\ f.field = "id"
          /\ {g.stream : g \in SameField(f)} = SameTypeStreams
          /\ Tr(f) = FTn("source_intruder_id")

----------------------------------------------------------------------------
(* The registry's current formula.                                           *)

\* the entries of the log that decide what the current formula is: the compile
\* calls that returned, and the clear_formulas calls
Decisive ==
    {i \in 1..Len(compile_log) :
        compile_log[i].op = "clear_formulas" \/ ~Raised(compile_log[i].result)}

MostRecent == compile_log[CHOOSE i \in Decisive : \A j \in Decisive : j <= i]

\* C25: after any sequence of compile calls, made directly or by since, rolling_window, &, | and ~, get_formula_tree() without a name returns the AST that the most recent successful compile call stored; after clear_formulas() and before any further successful compile it raises KeyError.
C25_CurrentFormula ==
    Decisive # {} =>
        /\ MostRecent.op = "compile" =>
              /\ get_formula_tree(FormulaCompiler, None) = MostRecent.compiled_ast
              /\ _formula_trees[MostRecent.stored_as] = MostRecent.compiled_ast
        /\ MostRecent.op = "clear_formulas" =>
              get_formula_tree(FormulaCompiler, None) = [t |-> "raise", exc |-> "KeyError"]

C25_Witness ==
    /\ Len(compile_log) >= 4 /\ Decisive # {}
    /\ PyStr("phi") \in DOMAIN _formula_trees
    /\ compile_log[1].name = PyStr("phi") /\ ~Raised(compile_log[1].result)
    /\ MostRecent.op = "compile" /\ MostRecent.compiled_ast.t = "ast.Call"
    /\ MostRecent.stored_as = PyStr("formula_autogen_4")
    /\ returned = MostRecent.compiled_ast
    /\ returned # _formula_trees[PyStr("phi")]

----------------------------------------------------------------------------
(* Generated names.                                                          *)

\* the names of the form formula_autogen_N
GeneratedNames ==
    {PyStr("formula_autogen_" \o ToString(n)) : n \in 0..(3 * MaxCalls + 1)}

CompileEntries == {i \in 1..Len(compile_log) : compile_log[i].op = "compile"}

\* no caller has given a name of the generated form
NoForgedName == \A i \in CompileEntries : compile_log[i].name \notin GeneratedNames

\* the compile calls without a name that stored an AST
Unnamed == {i \in CompileEntries : compile_log[i].name = None /\ ~Raised(compile_log[i].result)}

\* C28: in a sequence of compile and clear_formulas calls in which no caller gives a name of the form formula_autogen_N, every compile call without a name stores its AST under a name that was not present, so the registry grows by exactly one entry and no earlier entry is replaced.
C28_AutoNamesFresh ==
    NoForgedName =>
        \A i \in Unnamed :
            LET before == compile_log[i].before._formula_trees
                after == compile_log[i].after._formula_trees
            IN  /\ compile_log[i].stored_as \in GeneratedNames
                /\ compile_log[i].stored_as \notin DOMAIN before
                /\ Cardinality(DOMAIN after) = Cardinality(DOMAIN before) + 1
                /\ \A k \in DOMAIN before : after[k] = before[k]

C28_Witness ==
    /\ NoForgedName /\ Len(compile_log) >= 4
    /\ \E i, j, k \in 1..Len(compile_log) :
          /\ i < j /\ j < k
          /\ compile_log[i].op = "compile" /\ compile_log[i].name = PyStr("phi")
          /\ ~Raised(compile_log[i].result)
          /\ compile_log[j].op = "clear_formulas"
          /\ k \in Unnamed /\ k = Len(compile_log)
          /\ compile_log[k].stored_as = PyStr("formula_autogen_3")
          /\ DOMAIN compile_log[k].before._formula_trees # {}

----------------------------------------------------------------------------
(* A compile call that fails.                                                *)

\* the argument is a Formula, an AST node, a callable or the name of a stored formula
Compilable(entry) ==
    \/ entry.formula.t \in {"biolanguage.Formula", "function"}
    \/ IsAST(entry.formula)
    \/ entry.formula.t = "str" /\ entry.formula \in DOMAIN entry.before._formula_trees

\* C29: FormulaCompiler.compile called with a value that is not a Formula, an AST node, a callable or a string naming a stored formula raises ValueError, and the stored formulas and the current-formula name are exactly what they were before the call.
C29_FailedCompileInert ==
    /\ \A i \in CompileEntries :
          ~Compilable(compile_log[i]) =>
              /\ compile_log[i].result = [t |-> "raise", exc |-> "ValueError"]
              /\ compile_log[i].after = compile_log[i].before
    /\ (compile_log # <<>> /\ compile_log[Len(compile_log)].op = "compile") =>
          compile_log[Len(compile_log)].after = Attributes(FormulaCompiler)

C29_Witness ==
    /\ Len(compile_log) >= 3
    /\ compile_log[Len(compile_log)].op = "compile"
    /\ compile_log[Len(compile_log)].formula = PyStr("phi")
    /\ compile_log[Len(compile_log)].name = PyStr("phi")
    /\ returned = [t |-> "raise", exc |-> "ValueError"]
    /\ _current_formula_name = PyStr("formula_autogen_2")
    /\ DOMAIN _formula_trees = {PyStr("formula_autogen_1"), PyStr("formula_autogen_2")}

----------------------------------------------------------------------------
(* Two threads in compile at once.                                           *)

BothDone == \A th \in Threads : tpc[th] = "done"

\* C30: when two threads each make one FormulaCompiler.compile call without a name, on different formulas, then under every interleaving of their steps both ASTs end up stored under distinct names: the registry has grown by two and neither entry is lost.
C30_BothStored ==
    BothDone =>
        /\ Cardinality(DOMAIN _formula_trees) = 2
        /\ tlocal[1].name # tlocal[2].name
        /\ \A th \in Threads :
              /\ tlocal[th].name \in DOMAIN _formula_trees
              /\ _formula_trees[tlocal[th].name] = tlocal[th].compiled_ast

====
